---- MODULE Spec2Model ----
(***************************************************************************)
(* A model of tiny-riscv-emulator: the flat memory, the register file, the *)
(* CSR file, the trap unit, the reservation set and the run loop.          *)
(*                                                                         *)
(* A u64 is modelled as the set of the positions of its 1-bits (a subset   *)
(* of 0..63), so that the masks of the CSR file and bit 63 keep their      *)
(* width.  Arithmetic on such words is a ripple-carry over the 64 bits.    *)
(***************************************************************************)
EXTENDS Integers, FiniteSets, Sequences, TLC

VARIABLES
    memory,                          \* Emulator.memory.array : [0..MAX-1 -> byte]
    regs,                            \* Emulator.regs : x1..x31
    csr,                             \* Emulator.csr
    pc,                              \* Emulator.pc
    current_priv,                    \* Emulator.current_priv
    instruction,                     \* Emulator.instruction (the fetched word, decoded)
    c_instruction,                   \* Emulator.c_instruction (0 = none)
    reserved_memory_ranges,          \* Emulator.reserved_memory_ranges
    riscv_tests_finished,            \* Emulator.riscv_tests_finished
    riscv_tests_exit_memory_address, \* Emulator.riscv_tests_exit_memory_address
    at,                              \* the host program: "idle", in run ("loop"), or spinning in WFI ("wfi")
    panicked,                        \* the host process has panicked
    ret,                             \* what the last call of the harness returned
    steps                            \* iterations of the run loop so far

vars == <<memory, regs, csr, pc, current_priv, instruction, c_instruction,
          reserved_memory_ranges, riscv_tests_finished,
          riscv_tests_exit_memory_address, at, panicked, ret, steps>>

-----------------------------------------------------------------------------
(* Bounds of the model *)

\* Memory<MAX>: the size of the byte array (the emulator instantiates 1 MiB)
MAX == 32

\* how many iterations of the run loop a behaviour takes
MaxSteps == 7

-----------------------------------------------------------------------------
(* 64-bit words *)

BitIdx == 0..63

Zero == {}

AllOnes == BitIdx

Pow2(n) == 2 ^ n

\* the word of a natural number below 2^31
Bits(n) == {i \in 0..30 : (n \div Pow2(i)) % 2 = 1}

Bit(i) == {i}

\* the natural number of the bits lo..hi of a word (by halves)
RECURSIVE ValRange(_, _, _)
ValRange(w, lo, hi) ==
    IF lo = hi THEN (IF lo \in w THEN Pow2(lo) ELSE 0)
    ELSE LET mid == (lo + hi) \div 2
         IN  ValRange(w, lo, mid) + ValRange(w, mid + 1, hi)

\* the natural number of a word below 2^31
Val(w) == ValRange(w, 0, 30)

And(a, b) == a \cap b

Or(a, b) == a \cup b

Xor(a, b) == (a \ b) \cup (b \ a)

Not(a) == BitIdx \ a

\* a << n and a >> n on u64 (n < 64)
Shl(a, n) == {i + n : i \in {j \in a : j + n <= 63}}

Shr(a, n) == {i - n : i \in {j \in a : j >= n}}

\* 2^bit - 1
LowMask(bit) == {i \in BitIdx : i < bit}

\* the carry into bit i of a + b: some lower bit generates one and every bit
\* between propagates it
CarryInto(a, b, i) ==
    \E j \in 0..(i - 1) :
        /\ j \in a /\ j \in b
        /\ \A k \in (j + 1)..(i - 1) : k \in a \/ k \in b

\* a + b on `width` bits, wrapping
AddBits(a, b, width) ==
    {i \in 0..(width - 1) : ((i \in a) # (i \in b)) # CarryInto(a, b, i)}

\* u64::wrapping_add
wrapping_add(a, b) == AddBits(a, b, 64)

\* a + b does not fit in a u64 (the `+` of the source then panics when the
\* build checks overflow, and wraps when it does not)
Overflows(a, b) == CarryInto(a, b, 64)

\* unsigned a < b
Less(a, b) ==
    LET d == Xor(a, b)
    IN  d # {} /\ (CHOOSE i \in d : \A j \in d : j <= i) \in b

\* 2^i % m, for a modulus below 2^15
RECURSIVE Pow2Mod(_, _)
Pow2Mod(i, m) ==
    IF i <= 30 THEN Pow2(i) % m ELSE ((Pow2(30) % m) * Pow2Mod(i - 30, m)) % m

\* the bits lo..hi of a word, modulo m (by halves)
RECURSIVE ModRange(_, _, _, _)
ModRange(w, m, lo, hi) ==
    IF lo = hi THEN (IF lo \in w THEN Pow2Mod(lo, m) ELSE 0)
    ELSE LET mid == (lo + hi) \div 2
         IN  (ModRange(w, m, lo, mid) + ModRange(w, m, mid + 1, hi)) % m

\* v % m of a u64 v, for a modulus below 2^15
WMod(w, m) == ModRange(w, m, 0, 63)

\* the little-endian bytes of the low `size` bytes of a word (to_le_bytes of
\* the value cast to u8/u16/u32/u64)
to_le_bytes(w, size) ==
    [k \in 1..size |-> Val({i - 8 * (k - 1) : i \in {j \in w : j \div 8 = k - 1}})]

\* u8/u16/u32/u64::from_le_bytes, widened to u64
from_le_bytes(bytes) ==
    UNION {{i + 8 * (k - 1) : i \in Bits(bytes[k])} : k \in 1..Len(bytes)}

\* sign_extend(bit, v): mask = (u64::MAX >> 1) ^ (2^bit - 1); (mask + v) ^ mask
sign_extend(bit, v) ==
    LET mask == Xor(Shr(AllOnes, 1), LowMask(bit))
    IN  Xor(wrapping_add(mask, v), mask)

-----------------------------------------------------------------------------
(* Results: Ok(x), Err(exception), or a panic of the host process *)

Ok(e, x) == [tag |-> "Ok", e |-> e, x |-> x]

Err(e, x) == [tag |-> "Err", e |-> e, x |-> x]

Panic(e) == [tag |-> "Panic", e |-> e, x |-> "panic"]

-----------------------------------------------------------------------------
(* Memory<MAX> *)

Byte == 0..255

\* &array[lo..hi] as a sequence
Slice(array, lo, hi) == [k \in 1..(hi - lo) |-> array[lo + k - 1]]

\* dst.copy_from_slice(src) panics unless the two slices have the same length
copy_fits(dst_len, src_len) == dst_len = src_len

\* array[lo..lo+Len(src)] overwritten with src
Overwrite(array, lo, src) ==
    [a \in DOMAIN array |->
        IF a >= lo /\ a < lo + Len(src) THEN src[a - lo + 1] ELSE array[a]]

\* Memory::read::<SIZE>(address): [panic, bytes]
Memory_read(array, address, SIZE) ==
    IF SIZE \div MAX > 1 THEN [panic |-> TRUE, bytes |-> <<>>]
    ELSE LET a == WMod(address, MAX) IN
         IF a + SIZE > MAX
         THEN LET diff == MAX - a IN
              \* array.copy_from_slice(&self.array[address..]);
              \* array.copy_from_slice(&self.array[..SIZE - diff]);
              IF copy_fits(SIZE, MAX - a) /\ copy_fits(SIZE, SIZE - diff)
              THEN [panic |-> FALSE, bytes |-> Slice(array, 0, SIZE - diff)]
              ELSE [panic |-> TRUE, bytes |-> <<>>]
         ELSE [panic |-> FALSE, bytes |-> Slice(array, a, a + SIZE)]

\* Memory::write(address, values): [panic, array]
Memory_write(array, address, values) ==
    LET size == Len(values) IN
    IF size \div MAX > 1 THEN [panic |-> TRUE, array |-> array]
    ELSE LET a == WMod(address, MAX) IN
         IF a + size > MAX
         THEN LET diff == MAX - a IN
              \* self.array[address..].copy_from_slice(&values[..diff]);
              \* self.array[..diff].copy_from_slice(&values[diff..]);
              IF copy_fits(MAX - a, diff) /\ copy_fits(diff, size - diff)
              THEN [panic |-> FALSE,
                    array |-> Overwrite(Overwrite(array, a, SubSeq(values, 1, diff)),
                                        0, SubSeq(values, diff + 1, size))]
              ELSE [panic |-> TRUE, array |-> array]
         ELSE \* self.array[address..].copy_from_slice(values);
              IF copy_fits(MAX - a, size)
              THEN [panic |-> FALSE, array |-> Overwrite(array, a, values)]
              ELSE [panic |-> TRUE, array |-> array]

\* Memory::load: the file's bytes, zero padded (a file longer than MAX panics)
Memory_load(file) ==
    [a \in 0..(MAX - 1) |-> IF a < Len(file) THEN file[a + 1] ELSE 0]

-----------------------------------------------------------------------------
(* Privileges and exceptions *)

\* enum Priv { U = 0, S = 1, M = 3 }
PrivU == 0

PrivS == 1

PrivM == 3

\* Priv::from(u64) panics on 2
PrivValid(v) == v \in {PrivU, PrivS, PrivM}

\* `e as u64` of enum Exception (SuperSoftInt is the supervisor software
\* interrupt: bit 63 and cause 1)
ExceptionCode(x) ==
    CASE x = "InstructionAddressMissaligned" -> Bits(0)
      [] x = "IllegralInstruction"           -> Bits(2)
      [] x = "EnvironmentCallFromUMode"      -> Bits(8)
      [] x = "EnvironmentCallFromSMode"      -> Bits(9)
      [] x = "EnvironmentCallFromMMode"      -> Bits(11)
      [] x = "SuperSoftInt"                  -> Or(Bit(63), Bits(1))

-----------------------------------------------------------------------------
(* CSR numbers and masks (csr.rs) *)

CSR_SSTATUS == \h100

CSR_STVEC == \h105

CSR_SCOUNTEREN == \h106

CSR_SEPC == \h141

CSR_SCAUSE == \h142

CSR_STVAL == \h143

CSR_SATP == \h180

CSR_MSTATUS == \h300

CSR_MISA == \h301

CSR_MEDELEG == \h302

CSR_MIDELEG == \h303

CSR_MIE == \h304

CSR_MTVEC == \h305

CSR_MCOUNTEREN == \h306

CSR_MSCRATCH == \h340

CSR_MEPC == \h341

CSR_MCAUSE == \h342

CSR_MTVAL == \h343

CSR_MIP == \h344

CSR_PMPCFG0 == \h3a0

CSR_PMPADDR0 == \h3b0

CSR_MNSTATUS == \h744

CSR_MCYCLE == \h800

CSR_CYCLE == \hc00

CSR_MVENDORID == \hf11

CSR_MARCHID == \hf12

CSR_MIMPID == \hf13

CSR_MHARTID == \hf14

CSR_MSTATUS_MPP_MASK == Shl(Bits(3), 11)

CSR_MSTATUS_SPP_MASK == Bit(8)

CSR_MSTATUS_MIE_MASK == Bit(3)

CSR_MSTATUS_SIE_MASK == Bit(1)

CSR_MSTATUS_MPIE_MASK == Bit(7)

CSR_MSTATUS_SPIE_MASK == Bit(5)

CSR_MSTATUS_TVM_MASK == Bit(20)

CSR_MSTATUS_TSR_MASK == Bit(22)

CSR_MSTATUS_TW_MASK == Bit(21)

CSR_MSTATUS_XXL_MASK == Shl(Bits(\ha), 32)

CSR_MSTATUS_MASK == Bits(\h4019aa)

CSR_SSTATUS_MASK == Bits(\h122)

CAUSE_INTERRUPT_MASK == Bits(\h2aaa)

CAUSE_EXCEPTION_MASK == Bits(\hcbbff)

\* 0x80_00_00_01_00_01_e6_40: the sstatus bits a write may not set
SSTATUS_UNSUPPORTED == Or(Bit(63), Or(Bit(32), Bits(\h1e640)))

\* 0x8000_0005_002f_e640: the mstatus bits a write may not set
MSTATUS_UNSUPPORTED == Or(Bit(63), Or(Shl(Bits(5), 32), Bits(\h2fe640)))

\* impl Default for Csr
Csr_default ==
    [stvec |-> Zero, scounteren |-> Zero, sepc |-> Zero, satp |-> Zero,
     mstatus |-> CSR_MSTATUS_XXL_MASK,
     misa |-> Or(Bit(63), Bits(\h141105)),
     mtvec |-> Zero, medeleg |-> Zero, mideleg |-> Zero, mie |-> Zero,
     mcounteren |-> Zero, mscratch |-> Zero, mepc |-> Zero, mcause |-> Zero,
     mtval |-> Zero, mip |-> Zero, pmpcfg0 |-> Zero, pmpaddr0 |-> Zero,
     mnstatus |-> Zero, mcycle |-> Zero]

-----------------------------------------------------------------------------
(* The emulator: registers, alignment, reservation set *)

\* the Emulator as a value; overflow_checks is the build profile (a `+` that
\* overflows panics when it is set and wraps when it is not)
Emu(oc) ==
    [memory |-> memory, regs |-> regs, csr |-> csr, pc |-> pc,
     current_priv |-> current_priv, instruction |-> instruction,
     c_instruction |-> c_instruction,
     reserved_memory_ranges |-> reserved_memory_ranges,
     riscv_tests_finished |-> riscv_tests_finished,
     riscv_tests_exit_memory_address |-> riscv_tests_exit_memory_address,
     overflow_checks |-> oc]

\* a + b of the source: [panic, v]
checked_add(e, a, b) ==
    [panic |-> e.overflow_checks /\ Overflows(a, b), v |-> wrapping_add(a, b)]

\* a register file in which x0 is a stored register like the others
read_reg_x0_stored(e, i) == e.regs[IF i = 0 THEN 0 ELSE i - 1]

\* read_reg(Register::X(i))
read_reg(e, i) == IF i = 0 THEN Zero ELSE e.regs[i - 1]

\* write_reg(Register::X(i), value)
write_reg(e, i, value) ==
    IF i = 0 THEN e ELSE [e EXCEPT !.regs[i - 1] = value]

\* write_reg(Register::Pc, value)
write_pc(e, value) == [e EXCEPT !.pc = value]

\* (read_raw_csr(CSR_MISA) & 0x4) != 0
is_c_extension_enabled(e) == And(e.csr.misa, Bits(4)) # Zero

\* address % n == 0
check_misaligned_nbyte_misaligned(address, n) == WMod(address, n) = 0

\* Ok unless C is disabled and the address is not 4-byte aligned
check_misaligned(e, address) ==
    IF ~is_c_extension_enabled(e)
    THEN check_misaligned_nbyte_misaligned(address, 4)
    ELSE TRUE

\* retain(|r| range.1 < r.0 || range.0 > r.1)
retained(range, r) == Less(range[2], r[1]) \/ Less(r[2], range[1])

RECURSIVE retain(_, _)
retain(ranges, range) ==
    IF ranges = <<>> THEN <<>>
    ELSE (IF retained(range, Head(ranges)) THEN <<Head(ranges)>> ELSE <<>>)
         \o retain(Tail(ranges), range)

push_reserved_memory_range(e, range) ==
    [e EXCEPT !.reserved_memory_ranges = Append(retain(@, range), range)]

\* Vec::pop: [some, range, e]
pop_reserved_memory_range(e) ==
    LET v == e.reserved_memory_ranges IN
    IF v = <<>> THEN [some |-> FALSE, range |-> <<Zero, Zero>>, e |-> e]
    ELSE [some |-> TRUE, range |-> v[Len(v)],
          e |-> [e EXCEPT !.reserved_memory_ranges = SubSeq(v, 1, Len(v) - 1)]]

\* read_memory::<SIZE>(address): Memory::read
read_memory(e, address, SIZE) == Memory_read(e.memory, address, SIZE)

\* write_memory(address, values): sets the finished flag, then Memory::write
write_memory(e, address, values) ==
    LET e1 == IF address = Bits(e.riscv_tests_exit_memory_address)
              THEN [e EXCEPT !.riscv_tests_finished = TRUE] ELSE e
        w  == Memory_write(e1.memory, address, values)
    IN  IF w.panic THEN Panic(e1) ELSE Ok([e1 EXCEPT !.memory = w.array], "unit")

-----------------------------------------------------------------------------
(* The CSR file (csr.rs) *)

\* set_c_extenstion(enabled): [panic, e]
set_c_extenstion(e, enabled) ==
    IF enabled
    THEN [panic |-> FALSE, e |-> [e EXCEPT !.csr.misa = Or(@, Bits(4))]]
    ELSE LET next == checked_add(e, e.pc, Bits(2)) IN
         IF next.panic THEN [panic |-> TRUE, e |-> e]
         ELSE IF check_misaligned_nbyte_misaligned(next.v, 4)
              THEN [panic |-> FALSE, e |-> [e EXCEPT !.csr.misa = And(@, Not(Bits(4)))]]
              ELSE [panic |-> FALSE, e |-> e]

\* no privilege check at all
check_csr_priv_any(e, c) == TRUE

\* (csr >> 8) & 0x3 > current_priv
check_csr_priv(e, c) == ~((c \div 256) % 4 > e.current_priv)

\* read_raw_csr(csr): [ok, v]; not ok is Err(IllegralInstruction)
read_raw_csr(e, c) ==
    CASE c = CSR_SSTATUS    -> [ok |-> TRUE, v |-> And(e.csr.mstatus, CSR_SSTATUS_MASK)]
      [] c = CSR_SEPC       -> [ok |-> TRUE, v |-> e.csr.sepc]
      [] c = CSR_SATP       -> [ok |-> TRUE, v |-> e.csr.satp]
      [] c = CSR_MSTATUS    -> [ok |-> TRUE, v |-> e.csr.mstatus]
      [] c = CSR_MISA       -> [ok |-> TRUE, v |-> e.csr.misa]
      [] c = CSR_MEDELEG    -> [ok |-> TRUE, v |-> e.csr.medeleg]
      [] c = CSR_MIDELEG    -> [ok |-> TRUE, v |-> e.csr.mideleg]
      [] c = CSR_MIE        -> [ok |-> TRUE, v |-> e.csr.mie]
      [] c = CSR_MTVEC      -> [ok |-> TRUE, v |-> e.csr.mtvec]
      [] c = CSR_MCOUNTEREN -> [ok |-> TRUE, v |-> e.csr.mcounteren]
      [] c = CSR_MSCRATCH   -> [ok |-> TRUE, v |-> e.csr.mscratch]
      [] c = CSR_MEPC       -> [ok |-> TRUE, v |-> e.csr.mepc]
      [] c = CSR_MCAUSE     -> [ok |-> TRUE, v |-> e.csr.mcause]
      [] c = CSR_MTVAL      -> [ok |-> TRUE, v |-> e.csr.mtval]
      [] c = CSR_MIP        -> [ok |-> TRUE, v |-> e.csr.mip]
      [] c \in {CSR_MCYCLE, CSR_CYCLE} -> [ok |-> TRUE, v |-> e.csr.mcycle]
      [] c = CSR_MVENDORID  -> [ok |-> TRUE, v |-> Or(Shl(Bits(\hba5e), 16), Bits(\hba11))]
      [] c = CSR_MARCHID    -> [ok |-> TRUE, v |-> Bits(\h05500550)]
      [] c = CSR_MIMPID     -> [ok |-> TRUE, v |-> Bits(1)]
      [] c = CSR_MHARTID    -> [ok |-> TRUE, v |-> Zero]
      [] OTHER              -> [ok |-> FALSE, v |-> Zero]

\* read_csr(csr): Ok(v), Err(IllegralInstruction) or a panic
read_csr(e, c) ==
    IF c \div 4096 # 0 THEN Panic(e)
    ELSE IF ~check_csr_priv(e, c) THEN Err(e, "IllegralInstruction")
    ELSE IF c = CSR_CYCLE /\ e.current_priv # PrivM
                          /\ And(read_raw_csr(e, CSR_MCOUNTEREN).v, Bits(1)) = Zero
         THEN Err(e, "IllegralInstruction")
    ELSE LET r == read_raw_csr(e, c) IN
         IF r.ok THEN Ok(e, r.v) ELSE Err(e, "IllegralInstruction")

\* sstatus written as if it were the whole of mstatus
write_sstatus_whole(old, value) == Or(And(value, CSR_MSTATUS_MASK), CSR_MSTATUS_XXL_MASK)

\* the arms of write_csr: the value each register stores
write_sstatus(old, value) ==
    Or(And(old, Not(CSR_SSTATUS_MASK)), And(value, CSR_SSTATUS_MASK))

write_mstatus(value) == Or(And(value, CSR_MSTATUS_MASK), CSR_MSTATUS_XXL_MASK)

\* value & 0xfffffffffffffffd
write_xtvec(value) == And(value, Not(Bits(2)))

\* value & 0xfffffffffffffffc
write_sepc(value) == And(value, Not(Bits(3)))

\* mepc stored as it is written
write_mepc_unmasked(value) == value

write_mepc(value) == And(value, Not(Bits(3)))

write_medeleg(value) == And(value, CAUSE_EXCEPTION_MASK)

write_mideleg(value) == And(value, CAUSE_INTERRUPT_MASK)

\* value & 0xaaa
write_mie(value) == And(value, Bits(\haaa))

write_mip(value) == And(value, Bits(\haaa))

write_mcause(value) ==
    And(value,
        IF 63 \in value
        THEN LET v == And(value, Not(Bit(63))) IN
             IF v \in {Bits(k) : k \in {1, 3, 5, 7, 9, 11, 13}} THEN v ELSE Zero
        ELSE IF value \in {Bits(k) : k \in (0..9) \cup (11..13) \cup {15, 18, 19}}
             THEN value ELSE Zero)

\* write_csr(csr, value): Ok, Err(IllegralInstruction) or a panic
write_csr(e, c, value) ==
    IF c \div 4096 # 0 THEN Panic(e)
    ELSE IF (c \div 1024) % 4 = 3 THEN Err(e, "IllegralInstruction")
    ELSE IF ~check_csr_priv(e, c) THEN Err(e, "IllegralInstruction")
    ELSE CASE c = CSR_SSTATUS ->
                IF And(value, SSTATUS_UNSUPPORTED) # Zero
                THEN Err(e, "IllegralInstruction")
                ELSE Ok([e EXCEPT !.csr.mstatus = write_sstatus(@, value)], "unit")
           [] c = CSR_STVEC -> Ok([e EXCEPT !.csr.stvec = write_xtvec(value)], "unit")
           [] c = CSR_SCOUNTEREN -> Ok([e EXCEPT !.csr.scounteren = value], "unit")
           [] c = CSR_SEPC -> Ok([e EXCEPT !.csr.sepc = write_sepc(value)], "unit")
           [] c = CSR_SATP ->
                IF value # Zero THEN Err(e, "IllegralInstruction") ELSE Ok(e, "unit")
           [] c = CSR_MSTATUS ->
                IF And(value, MSTATUS_UNSUPPORTED) # Zero
                THEN Err(e, "IllegralInstruction")
                ELSE Ok([e EXCEPT !.csr.mstatus = write_mstatus(value)], "unit")
           [] c = CSR_MISA ->
                LET r == set_c_extenstion(e, 2 \in value) IN
                IF r.panic THEN Panic(e) ELSE Ok(r.e, "unit")
           [] c = CSR_MTVEC -> Ok([e EXCEPT !.csr.mtvec = write_xtvec(value)], "unit")
           [] c = CSR_MEDELEG -> Ok([e EXCEPT !.csr.medeleg = write_medeleg(value)], "unit")
           [] c = CSR_MIDELEG -> Ok([e EXCEPT !.csr.mideleg = write_mideleg(value)], "unit")
           [] c = CSR_MIE -> Ok([e EXCEPT !.csr.mie = write_mie(value)], "unit")
           [] c = CSR_MCOUNTEREN -> Ok([e EXCEPT !.csr.mcounteren = value], "unit")
           [] c = CSR_MSCRATCH -> Ok([e EXCEPT !.csr.mscratch = value], "unit")
           [] c = CSR_MEPC -> Ok([e EXCEPT !.csr.mepc = write_mepc(value)], "unit")
           [] c = CSR_MCAUSE -> Ok([e EXCEPT !.csr.mcause = write_mcause(value)], "unit")
           [] c = CSR_MTVAL -> Ok([e EXCEPT !.csr.mtval = value], "unit")
           [] c = CSR_MIP -> Ok([e EXCEPT !.csr.mip = write_mip(value)], "unit")
           [] c = CSR_PMPCFG0 -> Ok([e EXCEPT !.csr.pmpcfg0 = value], "unit")
           [] c = CSR_PMPADDR0 ->
                Ok([e EXCEPT !.csr.pmpaddr0 = And(value, LowMask(50))], "unit")
           [] c = CSR_MNSTATUS ->
                Ok([e EXCEPT !.csr.mnstatus = And(value, Bits(8))], "unit")
           [] c = CSR_MHARTID -> Ok(e, "unit")
           [] OTHER -> Err(e, "IllegralInstruction")

\* check_interrupt_active(): "Ok", "SuperSoftInt" or "panic"
check_interrupt_active(e) ==
    LET mstatus == read_raw_csr(e, CSR_MSTATUS).v
        active  == And(read_raw_csr(e, CSR_MIE).v, read_raw_csr(e, CSR_MIP).v)
    IN  IF And(mstatus, CSR_MSTATUS_MIE_MASK) = Zero THEN "Ok"
        ELSE IF e.current_priv # PrivM THEN "Ok"
        ELSE IF active # Zero
             THEN IF Cardinality(active) # 1 THEN "panic"
                  ELSE IF active = Bits(2) THEN "SuperSoftInt" ELSE "panic"
        ELSE "Ok"

\* add_cycle(): self.csr.mcycle += 1
add_cycle(e) == [e EXCEPT !.csr.mcycle = wrapping_add(@, Bits(1))]

-----------------------------------------------------------------------------
(* Instruction fields (emulator.rs, extract_*_type) *)

\* (w >> lo) & (2^n - 1) as a number
Field(w, lo, n) == Val(And(Shr(w, lo), LowMask(n)))

\* (rd, rs1, rs2, funct7)
extract_r_type(i) ==
    [rd |-> Field(i, 7, 5), rs1 |-> Field(i, 15, 5), rs2 |-> Field(i, 20, 5),
     funct7 |-> Field(i, 25, 7)]

\* (rd, rs1, imm)
extract_i_type(i) ==
    [rd |-> Field(i, 7, 5), rs1 |-> Field(i, 15, 5), imm |-> Shr(i, 20)]

\* (rs1, rs2, imm)
extract_s_type(i) ==
    [rs1 |-> Field(i, 15, 5), rs2 |-> Field(i, 20, 5),
     imm |-> Or(Shr(And(i, Shl(LowMask(7), 25)), 20), Shr(And(i, Bits(\hf80)), 7))]

\* (rs1, rs2, imm)
extract_b_type(i) ==
    [rs1 |-> Field(i, 15, 5), rs2 |-> Field(i, 20, 5),
     imm |-> Or(Or(And(Shr(i, 19), Bits(\h1000)), And(Shl(i, 4), Bits(\h800))),
                Or(And(Shr(i, 20), Bits(\h7e0)), And(Shr(i, 7), Bits(\h1e))))]

\* (rd, imm)
extract_u_type(i) ==
    [rd |-> Field(i, 7, 5), imm |-> And(i, Shl(LowMask(20), 12))]

\* (rd, imm)
extract_j_type(i) ==
    [rd |-> Field(i, 7, 5),
     imm |-> Or(Or(And(Shr(i, 11), Bits(\h100000)), And(i, Bits(\hff000))),
                Or(And(Shr(i, 9), Bits(\h800)), And(Shr(i, 20), Bits(\h7fe))))]

\* a as i64 < b as i64
SLess(a, b) == Less(Xor(a, Bit(63)), Xor(b, Bit(63)))

\* a as i32 < b as i32 (of the low 32 bits)
SLess32(a, b) ==
    Less(Xor(And(a, LowMask(32)), Bit(31)), Xor(And(b, LowMask(32)), Bit(31)))

BoolWord(b) == IF b THEN Bits(1) ELSE Zero

-----------------------------------------------------------------------------
(* exec: loads, stores, immediates *)

\* op 0b00000: LB LH LW LD LBU LHU LWU
exec_load(e) ==
    LET f      == extract_i_type(e.instruction)
        funct3 == Field(e.instruction, 12, 3)
        addr   == wrapping_add(read_reg(e, f.rs1), sign_extend(11, f.imm))
        size   == CASE funct3 \in {0, 4} -> 1 [] funct3 \in {1, 5} -> 2
                    [] funct3 \in {2, 6} -> 4 [] OTHER -> 8
        r      == read_memory(e, addr, size)
        v      == from_le_bytes(r.bytes)
    IN  IF funct3 = 7 THEN Err(e, "IllegralInstruction")
        ELSE IF r.panic THEN Panic(e)
        ELSE Ok(write_reg(e, f.rd,
                          CASE funct3 = 0 -> sign_extend(7, v)
                            [] funct3 = 1 -> sign_extend(15, v)
                            [] funct3 = 2 -> sign_extend(31, v)
                            [] OTHER -> v),
                "Common")

\* op 0b00011: FENCE is a no-op; FENCE.TSO and PAUSE are rejected
exec_fence(e) ==
    IF e.instruction \in {Or(Bit(31), Bits(\h0330000f)), Bits(\h0100000f)}
    THEN Err(e, "IllegralInstruction")
    ELSE Ok(e, "Common")

\* op 0b00100: ADDI SLLI SLTI SLTIU XORI SRLI SRAI ORI ANDI
exec_op_imm(e) ==
    LET f      == extract_i_type(e.instruction)
        funct3 == Field(e.instruction, 12, 3)
        hi     == Val(Shr(f.imm, 6))
        shamt  == Val(And(f.imm, Bits(\h3f)))
        rs1    == read_reg(e, f.rs1)
        imm    == sign_extend(11, f.imm)
    IN  CASE funct3 = 0 -> Ok(write_reg(e, f.rd, wrapping_add(rs1, imm)), "Common")
          [] funct3 = 1 /\ hi = 0 -> Ok(write_reg(e, f.rd, Shl(rs1, shamt)), "Common")
          [] funct3 = 2 -> Ok(write_reg(e, f.rd, BoolWord(SLess(rs1, imm))), "Common")
          [] funct3 = 3 -> Ok(write_reg(e, f.rd, BoolWord(Less(rs1, imm))), "Common")
          [] funct3 = 4 -> Ok(write_reg(e, f.rd, Xor(rs1, imm)), "Common")
          [] funct3 = 5 /\ hi = 0 -> Ok(write_reg(e, f.rd, Shr(rs1, shamt)), "Common")
          [] funct3 = 5 /\ hi = 16 ->
                Ok(write_reg(e, f.rd, sign_extend(63 - shamt, Shr(rs1, shamt))), "Common")
          [] funct3 = 6 -> Ok(write_reg(e, f.rd, Or(rs1, imm)), "Common")
          [] funct3 = 7 -> Ok(write_reg(e, f.rd, And(rs1, imm)), "Common")
          [] OTHER -> Err(e, "IllegralInstruction")

\* op 0b00101: AUIPC
exec_auipc(e) ==
    LET f == extract_u_type(e.instruction)
    IN  Ok(write_reg(e, f.rd, wrapping_add(e.pc, sign_extend(31, f.imm))), "Common")

\* op 0b01101: LUI
exec_lui(e) ==
    LET f == extract_u_type(e.instruction)
    IN  Ok(write_reg(e, f.rd, sign_extend(31, f.imm)), "Common")

\* op 0b01000: SB SH SW SD
exec_store(e) ==
    LET f      == extract_s_type(e.instruction)
        funct3 == Field(e.instruction, 12, 3)
        addr   == wrapping_add(read_reg(e, f.rs1), sign_extend(11, f.imm))
        size   == CASE funct3 = 0 -> 1 [] funct3 = 1 -> 2 [] funct3 = 2 -> 4 [] OTHER -> 8
        w      == write_memory(e, addr, to_le_bytes(read_reg(e, f.rs2), size))
    IN  IF funct3 > 3 THEN Err(e, "IllegralInstruction")
        ELSE IF w.tag = "Panic" THEN w
        ELSE Ok(w.e, "Common")

-----------------------------------------------------------------------------
(* exec: atomics *)

\* what an AMO*.W stores, from the word read (v) and rs2 (both as u32)
amo_w_value(funct5, v, rs2) ==
    LET r == And(rs2, LowMask(32)) IN
    CASE funct5 = 0  -> And(wrapping_add(v, r), LowMask(32))      \* AMOADD.W
      [] funct5 = 1  -> r                                         \* AMOSWAP.W
      [] funct5 = 4  -> Xor(v, r)                                 \* AMOXOR.W
      [] funct5 = 12 -> And(v, r)                                 \* AMOAND.W
      [] funct5 = 8  -> Or(v, r)                                  \* AMOOR.W
      [] funct5 = 16 -> IF SLess32(v, r) THEN v ELSE r            \* AMOMIN.W
      [] funct5 = 20 -> IF SLess32(r, v) THEN v ELSE r            \* AMOMAX.W
      [] funct5 = 24 -> IF Less(r, v) THEN r ELSE v               \* AMOMINU.W
      [] funct5 = 28 -> IF Less(v, r) THEN r ELSE v               \* AMOMAXU.W

\* what an AMO*.D stores
amo_d_value(funct5, v, r) ==
    CASE funct5 = 0  -> wrapping_add(v, r)
      [] funct5 = 1  -> r
      [] funct5 = 4  -> Xor(v, r)
      [] funct5 = 12 -> And(v, r)
      [] funct5 = 8  -> Or(v, r)
      [] funct5 = 16 -> IF SLess(v, r) THEN v ELSE r
      [] funct5 = 20 -> IF SLess(r, v) THEN v ELSE r
      [] funct5 = 24 -> IF Less(r, v) THEN r ELSE v
      [] funct5 = 28 -> IF Less(v, r) THEN r ELSE v

AmoFunct5 == {0, 1, 4, 8, 12, 16, 20, 24, 28}

\* SC.W: pop a reservation; store and rd = 0 if it covers [addr, addr + 4]
exec_sc_w(e, f, addr) ==
    LET p   == pop_reserved_memory_range(e)
        end == checked_add(e, addr, Bits(4))
    IN  IF p.some
        THEN IF ~Less(addr, p.range[1])
             THEN \* range.0 <= addr holds: range.1 >= addr + 4 is evaluated
                  IF end.panic THEN Panic(p.e)
                  ELSE IF ~Less(p.range[2], end.v)
                       THEN LET w == write_memory(p.e, addr,
                                                  to_le_bytes(read_reg(p.e, f.rs2), 4))
                            IN  IF w.tag = "Panic" THEN w
                                ELSE Ok(write_reg(w.e, f.rd, Zero), "Common")
                       ELSE Ok(write_reg(p.e, f.rd, Bits(1)), "Common")
             ELSE Ok(write_reg(p.e, f.rd, Bits(1)), "Common")
        ELSE Ok(write_reg(p.e, f.rd, Bits(1)), "Common")

\* LR.W and AMO*.W: the word is read first, rd is written last
exec_amo_w(e, f, addr) ==
    LET funct5 == f.funct7 \div 4
        r      == read_memory(e, addr, 4)
        v      == from_le_bytes(r.bytes)
        rd_v   == sign_extend(31, v)
    IN  IF r.panic THEN Panic(e)
        ELSE IF funct5 = 2
        THEN \* LR.W
             LET end == checked_add(e, addr, Bits(4))
                 e1  == write_reg(e, f.rd, rd_v)
             IN  IF end.panic THEN Panic(e1)
                 ELSE Ok(write_reg(push_reserved_memory_range(e1, <<addr, end.v>>),
                                   f.rd, rd_v), "Common")
        ELSE IF funct5 \in AmoFunct5
        THEN LET w == write_memory(e, addr,
                                   to_le_bytes(amo_w_value(funct5, v, read_reg(e, f.rs2)), 4))
             IN  IF w.tag = "Panic" THEN w
                 ELSE IF funct5 = 1
                      THEN \* AMOSWAP.W also writes the word read to rs2
                           Ok(write_reg(write_reg(w.e, f.rs2, v), f.rd, rd_v), "Common")
                      ELSE Ok(write_reg(w.e, f.rd, rd_v), "Common")
        ELSE Err(e, "IllegralInstruction")

\* AMO*.D (there is no LR.D or SC.D arm)
exec_amo_d(e, f, addr) ==
    LET funct5 == f.funct7 \div 4
        r      == read_memory(e, addr, 8)
        v      == from_le_bytes(r.bytes)
    IN  IF r.panic THEN Panic(e)
        ELSE IF funct5 \in AmoFunct5
        THEN LET w == write_memory(e, addr,
                                   to_le_bytes(amo_d_value(funct5, v, read_reg(e, f.rs2)), 8))
             IN  IF w.tag = "Panic" THEN w
                 ELSE IF funct5 = 1
                      THEN Ok(write_reg(write_reg(w.e, f.rs2, v), f.rd, v), "Common")
                      ELSE Ok(write_reg(w.e, f.rd, v), "Common")
        ELSE Err(e, "IllegralInstruction")

\* op 0b01011
exec_atomic(e) ==
    LET f      == extract_r_type(e.instruction)
        funct3 == Field(e.instruction, 12, 3)
        addr   == read_reg(e, f.rs1)
    IN  CASE funct3 = 2 ->
                IF ~check_misaligned(e, addr)
                THEN Err(e, "InstructionAddressMissaligned")
                ELSE IF f.funct7 \div 4 = 3 THEN exec_sc_w(e, f, addr)
                ELSE exec_amo_w(e, f, addr)
          [] funct3 = 3 ->
                IF ~check_misaligned_nbyte_misaligned(addr, 8)
                THEN Err(e, "InstructionAddressMissaligned")
                ELSE exec_amo_d(e, f, addr)
          [] OTHER -> Err(e, "IllegralInstruction")

-----------------------------------------------------------------------------
(* exec: branches and jumps *)

\* the comparison of BEQ BNE BLT BGE BLTU BGEU
branch_taken(funct3, a, b) ==
    CASE funct3 = 0 -> a = b
      [] funct3 = 1 -> a # b
      [] funct3 = 4 -> SLess(a, b)
      [] funct3 = 5 -> ~SLess(a, b)
      [] funct3 = 6 -> Less(a, b)
      [] funct3 = 7 -> ~Less(a, b)

\* op 0b11000
exec_branch(e) ==
    LET f      == extract_b_type(e.instruction)
        funct3 == Field(e.instruction, 12, 3)
        offset == sign_extend(12, f.imm)
        dst    == wrapping_add(e.pc, offset)
    IN  IF funct3 \in {2, 3} THEN Err(e, "IllegralInstruction")
        ELSE IF branch_taken(funct3, read_reg(e, f.rs1), read_reg(e, f.rs2))
        THEN IF ~check_misaligned(e, dst)
             THEN Err(e, "InstructionAddressMissaligned")
             ELSE Ok(write_pc(e, dst), "Jump")
        ELSE Ok(e, "Common")

\* op 0b11001: JALR
exec_jalr(e) ==
    LET f    == extract_i_type(e.instruction)
        dst  == And(wrapping_add(read_reg(e, f.rs1), sign_extend(11, f.imm)), Not(Bits(1)))
        link == checked_add(e, e.pc, Bits(4))
    IN  IF ~check_misaligned(e, dst) THEN Err(e, "InstructionAddressMissaligned")
        ELSE IF link.panic THEN Panic(e)
        ELSE Ok(write_pc(write_reg(e, f.rd, link.v), dst), "Jump")

\* op 0b11011: JAL
exec_jal(e) ==
    LET f    == extract_j_type(e.instruction)
        dst  == wrapping_add(e.pc, sign_extend(20, f.imm))
        link == checked_add(e, e.pc, Bits(4))
    IN  IF ~check_misaligned(e, dst) THEN Err(e, "InstructionAddressMissaligned")
        ELSE IF link.panic THEN Panic(e)
        ELSE Ok(write_pc(write_reg(e, f.rd, link.v), dst), "Jump")

-----------------------------------------------------------------------------
(* exec: SYSTEM (op 0b11100) *)

\* Priv::from(v) after the status register and the PC are written
return_to(e, v) ==
    IF PrivValid(v) THEN Ok([e EXCEPT !.current_priv = v], "Jump") ELSE Panic(e)

\* 0x10200073
exec_sret(e) ==
    LET mstatus == read_raw_csr(e, CSR_MSTATUS).v
        spp     == Val(Shr(And(mstatus, CSR_MSTATUS_SPP_MASK), 8))
        spie    == Shr(And(mstatus, CSR_MSTATUS_SPIE_MASK), 5)
        new_sstaus ==
            Or(And(mstatus,
                   And(And(Not(CSR_SSTATUS_MASK), Not(CSR_MSTATUS_SPP_MASK)),
                       And(Not(CSR_MSTATUS_SPIE_MASK), Not(CSR_MSTATUS_SIE_MASK)))),
               Or(Or(Shl(Bits(PrivU), 8), Shl(Bits(1), 8)), Shl(spie, 1)))
        w == write_csr(e, CSR_SSTATUS, new_sstaus)
    IN  IF e.current_priv \notin {PrivM, PrivS} THEN Err(e, "IllegralInstruction")
        ELSE IF e.current_priv = PrivS /\ And(mstatus, CSR_MSTATUS_TSR_MASK) # Zero
        THEN Err(e, "IllegralInstruction")
        ELSE IF w.tag # "Ok" THEN Panic(e)
        ELSE LET r == read_csr(w.e, CSR_SEPC) IN
             IF r.tag # "Ok" THEN Panic(w.e)
             ELSE return_to(write_pc(w.e, r.x), spp)

\* 0x30200073
exec_mret(e) ==
    LET mstatus == read_raw_csr(e, CSR_MSTATUS).v
        mpp     == Val(Shr(And(mstatus, CSR_MSTATUS_MPP_MASK), 11))
        mpie    == Shr(And(mstatus, CSR_MSTATUS_MPIE_MASK), 7)
        new_mstatus ==
            Or(And(mstatus,
                   And(Not(CSR_MSTATUS_MIE_MASK),
                       And(Not(CSR_MSTATUS_MPP_MASK), Not(CSR_MSTATUS_MPIE_MASK)))),
               Or(Or(Shl(mpie, 3), Shl(Bits(1), 7)), Shl(Bits(PrivU), 11)))
        w == write_csr(e, CSR_MSTATUS, new_mstatus)
    IN  IF e.current_priv # PrivM THEN Err(e, "IllegralInstruction")
        ELSE IF w.tag # "Ok" THEN Panic(e)
        ELSE LET r == read_csr(w.e, CSR_MEPC) IN
             IF r.tag # "Ok" THEN Panic(w.e)
             ELSE return_to(write_pc(w.e, r.x), mpp)

\* 0x10500073: only in S-mode without a timeout; spins until mie & mip is set
exec_wfi(e) ==
    LET tw     == And(read_raw_csr(e, CSR_MSTATUS).v, CSR_MSTATUS_TW_MASK)
        active == And(read_raw_csr(e, CSR_MIE).v, read_raw_csr(e, CSR_MIP).v)
    IN  IF e.current_priv # PrivS THEN Panic(e)
        ELSE IF tw # Zero THEN Panic(e)
        ELSE IF active = Zero THEN [tag |-> "Hang", e |-> e, x |-> "loop"]
        ELSE IF active = Bits(2) THEN Ok(e, "Common")
        ELSE Panic(e)

\* funct3 = 0: SFENCE.VMA, ECALL, SRET, WFI, MRET
exec_priv(e) ==
    IF Field(e.instruction, 25, 7) = 9
    THEN IF e.current_priv # PrivS THEN Panic(e) ELSE Err(e, "IllegralInstruction")
    ELSE CASE e.instruction = Bits(\h00000073) ->
                Err(e, CASE e.current_priv = PrivM -> "EnvironmentCallFromMMode"
                         [] e.current_priv = PrivS -> "EnvironmentCallFromSMode"
                         [] OTHER -> "EnvironmentCallFromUMode")
           [] e.instruction = Bits(\h10200073) -> exec_sret(e)
           [] e.instruction = Bits(\h10500073) -> exec_wfi(e)
           [] e.instruction = Bits(\h30200073) -> exec_mret(e)
           [] OTHER -> Err(e, "IllegralInstruction")

\* what CSRRS/CSRRC/CSRRSI/CSRRCI write back, from the value read
csr_set(old, operand) == Or(old, operand)

csr_clear(old, operand) == And(old, Not(operand))

\* csr & !rs1 as u64 with rs1: u8
csr_clear_imm(old, rs1) == And(old, Xor(Bits(255), Bits(rs1)))

\* CSRRW and CSRRWI: the register is read only when rd is not x0
exec_csrrw(e, f, c, operand) ==
    LET r == IF f.rd # 0 THEN read_csr(e, c) ELSE Ok(e, Zero)
        w == write_csr(e, c, operand)
    IN  IF r.tag # "Ok" THEN r
        ELSE IF w.tag # "Ok" THEN w
        ELSE Ok(write_reg(w.e, f.rd, r.x), "Common")

\* CSRRS CSRRC CSRRSI CSRRCI: rd is written before the register is
exec_csrrx(e, f, c, nonzero, new(_)) ==
    LET r == read_csr(e, c) IN
    IF r.tag # "Ok" THEN r
    ELSE LET e1 == write_reg(e, f.rd, r.x) IN
         IF nonzero
         THEN LET w == write_csr(e1, c, new(r.x)) IN
              IF w.tag = "Ok" THEN Ok(w.e, "Common") ELSE w
         ELSE Ok(e1, "Common")

exec_system(e) ==
    LET f      == extract_i_type(e.instruction)
        funct3 == Field(e.instruction, 12, 3)
        c      == Val(f.imm)
        rs1    == read_reg(e, f.rs1)
    IN  CASE funct3 = 0 -> exec_priv(e)
          [] funct3 = 1 -> exec_csrrw(e, f, c, rs1)
          [] funct3 = 2 -> exec_csrrx(e, f, c, rs1 # Zero, LAMBDA v : csr_set(v, rs1))
          [] funct3 = 3 -> exec_csrrx(e, f, c, rs1 # Zero, LAMBDA v : csr_clear(v, rs1))
          [] funct3 = 5 -> exec_csrrw(e, f, c, Bits(f.rs1))
          [] funct3 = 6 ->
                exec_csrrx(e, f, c, f.rs1 # 0, LAMBDA v : csr_set(v, Bits(f.rs1)))
          [] funct3 = 7 ->
                exec_csrrx(e, f, c, f.rs1 # 0, LAMBDA v : csr_clear_imm(v, f.rs1))
          [] OTHER -> Err(e, "IllegralInstruction")

-----------------------------------------------------------------------------
(* c_exec: the compressed instructions *)

wrapping_sub(a, b) == wrapping_add(wrapping_add(a, Not(b)), Bits(1))

\* the u16 field (w >> lo) & mask as a word
CField(w, lo, mask) == And(Shr(w, lo), Bits(mask))

\* c_reg as u8 + 8
convert_from_c_reg_to_i(c_reg) == c_reg + 8

\* (rd, imm)
extract_ci_type(i) ==
    [rd |-> Field(i, 7, 5), imm |-> Or(CField(i, 7, \h20), CField(i, 2, \h1f))]

\* (rd, imm)
extract_ciw_type(i) ==
    [rd |-> convert_from_c_reg_to_i(Field(i, 2, 3)), imm |-> CField(i, 5, \hff)]

\* CL: (rd, rs1, imm), CS: (rs2, rs1, imm)
extract_clcs_type(i) ==
    [fr |-> convert_from_c_reg_to_i(Field(i, 2, 3)),
     sr |-> convert_from_c_reg_to_i(Field(i, 7, 3)), imm |-> CField(i, 5, 3)]

\* (rs1, imm)
extract_cb_type(i) ==
    [rs1 |-> convert_from_c_reg_to_i(Field(i, 7, 3)),
     imm |-> Or(CField(i, 5, \he0), CField(i, 2, \h1f))]

calc_c_offset_5_3_2_6(imm) ==
    Or(Or(And(Shl(imm, 6), Bits(\h40)), And(Shl(imm, 1), Bits(\h38))),
       And(Shl(imm, 1), Bits(4)))

calc_c_offset_5_3_7_6(imm) ==
    Or(And(Shl(imm, 6), Bits(\hc0)), And(Shl(imm, 1), Bits(\h38)))

\* a load of SIZE bytes into rd; the 4-byte one is sign extended
c_load(e, rd, addr, SIZE) ==
    LET r == read_memory(e, addr, SIZE)
        v == from_le_bytes(r.bytes)
    IN  IF r.panic THEN Panic(e)
        ELSE Ok(write_reg(e, rd, IF SIZE = 4 THEN sign_extend(31, v) ELSE v), "ExeC")

\* a store of the low SIZE bytes of value
c_store(e, addr, value, SIZE) ==
    LET w == write_memory(e, addr, to_le_bytes(value, SIZE))
    IN  IF w.tag = "Panic" THEN w ELSE Ok(w.e, "ExeC")

\* c_instruction & 0x3 == 0b00
c_exec_q0(e) ==
    LET ci     == e.c_instruction
        f      == extract_clcs_type(ci)
        funct3 == Val(Shr(ci, 13))
        base   == read_reg(e, f.sr)
    IN  CASE funct3 = 0 ->
                LET g == extract_ciw_type(ci)
                    nzuimm ==
                        Or(Or(Shl(And(g.imm, Bits(\h3c)), 4), Shr(And(g.imm, Bits(\hc0)), 2)),
                           Or(Shl(And(g.imm, Bits(1)), 3), Shl(And(g.imm, Bits(2)), 1)))
                IN  IF g.imm = Zero THEN Err(e, "IllegralInstruction")
                    ELSE Ok(write_reg(e, g.rd, wrapping_add(read_reg(e, 2), nzuimm)),
                            "ExeC")
          [] funct3 = 2 ->
                c_load(e, f.fr, wrapping_add(base, calc_c_offset_5_3_2_6(f.imm)), 4)
          [] funct3 = 3 ->
                c_load(e, f.fr, wrapping_add(base, calc_c_offset_5_3_7_6(f.imm)), 8)
          [] funct3 = 6 ->
                c_store(e, wrapping_add(base, calc_c_offset_5_3_2_6(f.imm)),
                        read_reg(e, f.fr), 4)
          [] funct3 = 7 ->
                c_store(e, wrapping_add(base, calc_c_offset_5_3_7_6(f.imm)),
                        read_reg(e, f.fr), 8)
          [] OTHER -> Err(e, "IllegralInstruction")

\* op = 0b01, funct3 = 0b100: C.SRLI C.SRAI C.ANDI C.SUB C.XOR C.OR C.AND C.SUBW C.ADDW
c_exec_alu(e, f) ==
    LET funct2 == f.rd \div 8
        rd     == convert_from_c_reg_to_i(f.rd % 8)
        x      == read_reg(e, rd)
        shamt  == Val(f.imm)
        rs2    == convert_from_c_reg_to_i(Val(And(f.imm, Bits(7))))
        y      == read_reg(e, rs2)
        sel    == <<Val(Shr(f.imm, 5)), Val(And(Shr(f.imm, 3), Bits(3)))>>
    IN  CASE funct2 = 0 ->
                IF f.imm # Zero THEN Ok(write_reg(e, rd, Shr(x, shamt)), "ExeC")
                ELSE Ok(e, "ExeC")
          [] funct2 = 1 ->
                IF f.imm # Zero
                THEN Ok(write_reg(e, rd, sign_extend(63 - shamt, Shr(x, shamt))), "ExeC")
                ELSE Ok(e, "ExeC")
          [] funct2 = 2 -> Ok(write_reg(e, rd, And(x, sign_extend(5, f.imm))), "ExeC")
          [] OTHER ->
                CASE sel = <<0, 0>> -> Ok(write_reg(e, rd, wrapping_sub(x, y)), "ExeC")
                  [] sel = <<0, 1>> -> Ok(write_reg(e, rd, Xor(x, y)), "ExeC")
                  [] sel = <<0, 2>> -> Ok(write_reg(e, rd, Or(x, y)), "ExeC")
                  [] sel = <<0, 3>> -> Ok(write_reg(e, rd, And(x, y)), "ExeC")
                  [] sel = <<1, 0>> ->
                        Ok(write_reg(e, rd,
                                     sign_extend(31, And(wrapping_sub(x, y), LowMask(32)))),
                           "ExeC")
                  [] sel = <<1, 1>> ->
                        Ok(write_reg(e, rd,
                                     sign_extend(31, And(wrapping_add(x, y), LowMask(32)))),
                           "ExeC")
                  [] OTHER -> Err(e, "IllegralInstruction")

\* c_instruction & 0x3 == 0b01
c_exec_q1(e) ==
    LET ci     == e.c_instruction
        f      == extract_ci_type(ci)
        funct3 == Val(Shr(ci, 13))
        x      == read_reg(e, f.rd)
    IN  CASE funct3 = 0 ->
                \* C.NOP, C.ADDI
                IF f.rd = 0 THEN Ok(e, "ExeC")
                ELSE IF f.imm = Zero THEN Panic(e)
                ELSE Ok(write_reg(e, f.rd, wrapping_add(x, sign_extend(5, f.imm))), "ExeC")
          [] funct3 = 1 ->
                \* C.ADDIW
                IF f.rd # 0
                THEN Ok(write_reg(e, f.rd,
                                  sign_extend(31, And(wrapping_add(x, sign_extend(5, f.imm)),
                                                      LowMask(32)))),
                        "ExeC")
                ELSE Err(e, "IllegralInstruction")
          [] funct3 = 2 ->
                \* C.LI
                IF f.rd # 0 THEN Ok(write_reg(e, f.rd, sign_extend(5, f.imm)), "ExeC")
                ELSE Ok(e, "ExeC")
          [] funct3 = 3 ->
                IF f.rd = 0 THEN Panic(e)
                ELSE IF f.rd = 2
                THEN \* C.ADDI16SP
                     LET nzimm ==
                             Or(Or(And(Shl(f.imm, 4), Bits(\h200)),
                                   And(Shl(f.imm, 6), Bits(\h180))),
                                Or(Or(And(Shl(f.imm, 3), Bits(\h40)),
                                      And(Shl(f.imm, 5), Bits(\h20))),
                                   And(f.imm, Bits(\h10))))
                     IN  Ok(write_reg(e, 2, wrapping_add(read_reg(e, 2),
                                                         sign_extend(9, nzimm))),
                            "ExeC")
                ELSE \* C.LUI
                     IF f.imm = Zero THEN Panic(e)
                     ELSE Ok(write_reg(e, f.rd, sign_extend(17, Shl(f.imm, 12))), "ExeC")
          [] funct3 = 4 -> c_exec_alu(e, f)
          [] funct3 = 5 ->
                \* C.J
                LET imm    == CField(ci, 1, \hffe)
                    offset ==
                        Or(Or(And(imm, Bits(\hb40)), And(Shl(imm, 3), Bits(\h400))),
                           Or(Or(And(Shl(imm, 2), Bits(\h80)), And(Shl(imm, 4), Bits(\h20))),
                              Or(And(Shr(imm, 6), Bits(\h10)), And(Shr(imm, 1), Bits(\he)))))
                IN  Ok(write_pc(e, wrapping_add(e.pc, sign_extend(11, offset))), "Jump")
          [] OTHER ->
                \* C.BEQZ, C.BNEZ
                LET g      == extract_cb_type(ci)
                    offset ==
                        Or(Or(And(Shl(g.imm, 1), Bits(\h100)), And(Shl(g.imm, 3), Bits(\hc0))),
                           Or(Or(And(Shl(g.imm, 5), Bits(\h20)), And(Shr(g.imm, 2), Bits(\h18))),
                              And(g.imm, Bits(6))))
                    rs1    == read_reg(e, g.rs1)
                IN  IF (funct3 = 6 /\ rs1 = Zero) \/ (funct3 = 7 /\ rs1 # Zero)
                    THEN Ok(write_pc(e, wrapping_add(e.pc, sign_extend(8, offset))), "Jump")
                    ELSE Ok(e, "ExeC")

\* C.EBREAK, C.JR, C.JALR, C.MV, C.ADD
c_exec_jr_mv_add(e, f) ==
    LET rs2    == Val(And(f.imm, Bits(\h1f)))
        funct4 == Val(Shr(f.imm, 5))
    IN  IF f.rd = 0 /\ rs2 = 0 /\ funct4 = 1 THEN Err(e, "IllegralInstruction")
        ELSE IF rs2 = 0
        THEN IF f.rd = 0 THEN Err(e, "IllegralInstruction")
             ELSE LET e1 == IF funct4 = 1
                            THEN write_reg(e, 1, wrapping_add(e.pc, Bits(2)))
                            ELSE e
                  IN  Ok(write_pc(e1, And(read_reg(e1, f.rd), Not(Bits(1)))), "Jump")
        ELSE IF f.rd = 0 THEN Ok(e, "ExeC")
        ELSE IF funct4 = 0 THEN Ok(write_reg(e, f.rd, read_reg(e, rs2)), "ExeC")
        ELSE Ok(write_reg(e, f.rd, wrapping_add(read_reg(e, f.rd), read_reg(e, rs2))),
                "ExeC")

\* c_instruction & 0x3 == 0b10
c_exec_q2(e) ==
    LET ci     == e.c_instruction
        f      == extract_ci_type(ci)
        funct3 == Val(Shr(ci, 13))
        sp     == read_reg(e, 2)
        offset == Or(And(Shl(f.imm, 6), Bits(\hc0)), And(f.imm, Bits(\h3c)))
        rs2    == Val(And(f.imm, Bits(\h1f)))
        simm   == Or(And(f.imm, Bits(\h20)), Bits(f.rd))
    IN  CASE funct3 = 0 ->
                \* C.SLLI
                IF f.rd # 0 /\ f.imm # Zero
                THEN Ok(write_reg(e, f.rd, Shl(read_reg(e, f.rd), Val(f.imm))), "ExeC")
                ELSE Ok(e, "ExeC")
          [] funct3 = 2 ->
                \* C.LWSP
                IF f.rd = 0 THEN Err(e, "IllegralInstruction")
                ELSE c_load(e, f.rd, wrapping_add(sp, offset), 4)
          [] funct3 = 3 ->
                \* C.LDSP
                IF f.rd = 0 THEN Err(e, "IllegralInstruction")
                ELSE c_load(e, f.rd, wrapping_add(sp, offset), 8)
          [] funct3 = 4 -> c_exec_jr_mv_add(e, f)
          [] funct3 = 6 ->
                \* C.SWSP
                c_store(e, wrapping_add(sp, Or(And(Shl(simm, 6), Bits(\hc0)),
                                               And(simm, Bits(\h3c)))),
                        read_reg(e, rs2), 4)
          [] funct3 = 7 ->
                \* C.SDSP
                c_store(e, wrapping_add(sp, Or(And(Shl(simm, 6), Bits(7)),
                                               And(simm, Bits(\h38)))),
                        read_reg(e, rs2), 8)
          [] OTHER -> Err(e, "IllegralInstruction")

c_exec(e0) ==
    LET e  == [e0 EXCEPT !.c_instruction = And(e0.instruction, LowMask(16))]
        op == Val(And(e.c_instruction, Bits(3)))
    IN  CASE op = 0 -> c_exec_q0(e)
          [] op = 1 -> c_exec_q1(e)
          [] op = 2 -> c_exec_q2(e)
          [] OTHER -> Err(e, "IllegralInstruction")

-----------------------------------------------------------------------------
(* Multiplication and division on words *)

\* the sum of the partial products a << i for the bits i of b in lo..hi,
\* on 128 bits (by halves)
RECURSIVE MulRange(_, _, _, _)
MulRange(a, b, lo, hi) ==
    IF lo = hi
    THEN (IF lo \in b THEN {k + lo : k \in {j \in a : j + lo <= 127}} ELSE {})
    ELSE LET mid == (lo + hi) \div 2
         IN  AddBits(MulRange(a, b, lo, mid), MulRange(a, b, mid + 1, hi), 128)

\* u128::wrapping_mul
wrapping_mul_128(a, b) == MulRange(a, b, 0, 127)

\* sign_extend_128bit(63, v as u128)
sign_extend_128bit(v) == IF 63 \in v THEN v \cup (64..127) ELSE v

\* (p >> 64) as u64
High64(p) == {i - 64 : i \in {j \in p : j >= 64}}

\* u64::wrapping_mul
wrapping_mul(a, b) == wrapping_mul_128(a, b) \cap BitIdx

\* restoring division over the bits i, i-1, .. of a, n of them, with the
\* remainder r so far: [q, r] (2r + 1 may need 65 bits: then b fits)
RECURSIVE DivBits(_, _, _, _, _)
DivBits(a, b, i, n, r) ==
    IF n = 0 THEN [q |-> Zero, r |-> r]
    ELSE LET r1   == Or(Shl(r, 1), IF i \in a THEN Bits(1) ELSE Zero)
             fits == 63 \in r \/ ~Less(r1, b)
             rest == DivBits(a, b, i - 1, n - 1, IF fits THEN wrapping_sub(r1, b) ELSE r1)
         IN  [q |-> (IF fits THEN {i} ELSE {}) \cup rest.q, r |-> rest.r]

\* the bytes k, k-1, .. 0 of the dividend, one byte at a time
RECURSIVE DivBytes(_, _, _, _)
DivBytes(a, b, k, r) ==
    LET d == DivBits(a, b, 8 * k + 7, 8, r) IN
    IF k = 0 THEN d
    ELSE LET rest == DivBytes(a, b, k - 1, d.r)
         IN  [q |-> d.q \cup rest.q, r |-> rest.r]

\* a / b and a % b on u64, for b # 0
udiv(a, b) == DivBytes(a, b, 7, Zero).q

urem(a, b) == DivBytes(a, b, 7, Zero).r

Neg(a) == wrapping_sub(Zero, a)

Abs(a) == IF 63 \in a THEN Neg(a) ELSE a

\* a as i64 / b as i64 and a as i64 % b as i64 (truncating; not MIN / -1)
sdiv(a, b) ==
    LET q == udiv(Abs(a), Abs(b))
    IN  IF (63 \in a) # (63 \in b) THEN Neg(q) ELSE q

srem(a, b) ==
    LET r == urem(Abs(a), Abs(b))
    IN  IF 63 \in a THEN Neg(r) ELSE r

-----------------------------------------------------------------------------
(* exec: register-register arithmetic *)

\* op 0b01100
exec_op(e) ==
    LET f      == extract_r_type(e.instruction)
        funct3 == Field(e.instruction, 12, 3)
        a      == read_reg(e, f.rs1)
        b      == read_reg(e, f.rs2)
        shift  == Val(And(b, Bits(\h3f)))
        MIN    == Bit(63)
        k      == <<funct3, f.funct7>>
        W(v)   == Ok(write_reg(e, f.rd, v), "Common")
    IN  CASE k = <<0, 0>>  -> W(wrapping_add(a, b))
          [] k = <<0, 1>>  -> W(wrapping_mul(a, b))
          [] k = <<0, 32>> -> W(wrapping_sub(a, b))
          [] k = <<1, 0>>  -> W(Shl(a, shift))
          [] k = <<1, 1>>  ->
                W(High64(wrapping_mul_128(sign_extend_128bit(a), sign_extend_128bit(b))))
          [] k = <<2, 0>>  -> W(BoolWord(SLess(a, b)))
          [] k = <<2, 1>>  -> W(High64(wrapping_mul_128(sign_extend_128bit(a), b)))
          [] k = <<3, 0>>  -> W(BoolWord(Less(a, b)))
          [] k = <<3, 1>>  -> W(High64(wrapping_mul_128(a, b)))
          [] k = <<4, 0>>  -> W(Xor(a, b))
          [] k = <<4, 1>>  ->
                W(IF a = MIN /\ b = AllOnes THEN a
                  ELSE IF b = Zero THEN AllOnes ELSE sdiv(a, b))
          [] k = <<5, 0>>  -> W(Shr(a, shift))
          [] k = <<5, 1>>  -> W(IF b = Zero THEN AllOnes ELSE udiv(a, b))
          [] k = <<5, 32>> -> W(sign_extend(63 - shift, Shr(a, shift)))
          [] k = <<6, 0>>  -> W(Or(a, b))
          [] k = <<6, 1>>  ->
                W(IF a = MIN /\ b = AllOnes THEN Zero
                  ELSE IF b = Zero THEN a ELSE srem(a, b))
          [] k = <<7, 0>>  -> W(And(a, b))
          [] k = <<7, 1>>  -> W(IF b = Zero THEN a ELSE urem(a, b))
          [] OTHER -> Err(e, "IllegralInstruction")

\* op 0b00110: ADDIW SLLIW SRLIW SRAIW
exec_op_imm_32(e) ==
    LET f      == extract_i_type(e.instruction)
        funct3 == Field(e.instruction, 12, 3)
        hi     == Val(Shr(e.instruction, 26))
        a      == read_reg(e, f.rs1)
        shamt  == Val(And(f.imm, Bits(\h1f)))
        low    == LowMask(32)
        W(v)   == Ok(write_reg(e, f.rd, v), "Common")
    IN  CASE funct3 = 0 ->
                W(sign_extend(31, And(wrapping_add(a, sign_extend(11, f.imm)), low)))
          [] funct3 = 1 /\ hi = 0 -> W(sign_extend(31, And(Shl(a, shamt), low)))
          [] funct3 = 5 /\ hi = 0 ->
                W(sign_extend(31, And(Shr(And(a, low), shamt), low)))
          [] funct3 = 5 /\ hi = 16 ->
                W(sign_extend(31 - shamt, And(Shr(And(a, low), shamt), low)))
          [] OTHER -> Err(e, "IllegralInstruction")

\* op 0b01110: ADDW MULW SUBW SLLW DIVW SRLW DIVUW SRAW REMW REMUW
exec_op_32(e) ==
    LET f      == extract_r_type(e.instruction)
        funct3 == Field(e.instruction, 12, 3)
        a      == read_reg(e, f.rs1)
        b      == read_reg(e, f.rs2)
        low    == LowMask(32)
        a32    == And(a, low)
        b32    == And(b, low)
        sa     == sign_extend(31, a32)
        sb     == sign_extend(31, b32)
        shift  == Val(And(b, Bits(\h1f)))
        k      == <<funct3, f.funct7>>
        W(v)   == Ok(write_reg(e, f.rd, v), "Common")
    IN  CASE k = <<0, 0>>  -> W(sign_extend(31, And(wrapping_add(a, b), low)))
          [] k = <<0, 1>>  -> W(sign_extend(31, And(wrapping_mul(a32, b32), low)))
          [] k = <<0, 32>> -> W(sign_extend(31, And(wrapping_sub(a, b), low)))
          [] k = <<1, 0>>  -> W(sign_extend(31, And(Shl(a, shift), low)))
          [] k = <<4, 1>>  ->
                W(IF a32 = Bit(31) /\ b32 = low THEN sa
                  ELSE IF b32 = Zero THEN AllOnes ELSE sdiv(sa, sb))
          [] k = <<5, 0>>  -> W(sign_extend(31, And(Shr(a32, shift), low)))
          [] k = <<5, 1>>  ->
                W(IF b = Zero THEN AllOnes ELSE sign_extend(31, And(udiv(a, b), low)))
          [] k = <<5, 32>> -> W(sign_extend(31 - shift, And(Shr(a32, shift), low)))
          [] k = <<6, 1>>  ->
                W(IF a32 = Bit(31) /\ b32 = low THEN Zero
                  ELSE IF b32 = Zero THEN sign_extend(31, a32) ELSE srem(sa, sb))
          [] k = <<7, 1>>  ->
                W(sign_extend(31, IF b32 = Zero THEN a32 ELSE urem(a32, b32)))
          [] OTHER -> Err(e, "IllegralInstruction")

-----------------------------------------------------------------------------
(* exec, handle_exception and the pieces of run *)

\* exec(): the instruction word is already fetched
exec(e) ==
    IF e.instruction = Zero THEN Err(e, "IllegralInstruction")
    ELSE IF is_c_extension_enabled(e) /\ Field(e.instruction, 0, 2) < 3 THEN c_exec(e)
    ELSE LET e1 == [e EXCEPT !.c_instruction = Zero]
             op == Field(e.instruction, 2, 5)
         IN  IF Field(e.instruction, 0, 2) # 3 THEN Err(e1, "IllegralInstruction")
             ELSE CASE op = 0  -> exec_load(e1)
                    [] op = 3  -> exec_fence(e1)
                    [] op = 4  -> exec_op_imm(e1)
                    [] op = 5  -> exec_auipc(e1)
                    [] op = 6  -> exec_op_imm_32(e1)
                    [] op = 8  -> exec_store(e1)
                    [] op = 11 -> exec_atomic(e1)
                    [] op = 12 -> exec_op(e1)
                    [] op = 13 -> exec_lui(e1)
                    [] op = 14 -> exec_op_32(e1)
                    [] op = 24 -> exec_branch(e1)
                    [] op = 25 -> exec_jalr(e1)
                    [] op = 27 -> exec_jal(e1)
                    [] op = 28 -> exec_system(e1)
                    [] OTHER   -> Err(e1, "IllegralInstruction")

\* r.unwrap() followed by the rest of the function
unwrap_then(r, rest(_)) == IF r.tag = "Ok" THEN rest(r.e) ELSE Panic(r.e)

\* the address saved in xEPC: pc for an exception, pc + 4 for an interrupt
trap_epc(e, is_interrupt) ==
    IF is_interrupt THEN checked_add(e, e.pc, Bits(4)) ELSE [panic |-> FALSE, v |-> e.pc]

\* the delegated half of handle_exception
trap_to_s(e, x) ==
    LET code    == ExceptionCode(x)
        spp     == e.current_priv
        e1      == [e EXCEPT !.current_priv = PrivS]
        sstatus == read_raw_csr(e1, CSR_SSTATUS).v
        spie    == Shr(And(sstatus, CSR_MSTATUS_SIE_MASK), 1)
        sepc    == trap_epc(e1, 63 \in code)
        next_sstatus ==
            Or(Or(And(sstatus, And(Not(CSR_MSTATUS_SPP_MASK),
                                   And(Not(CSR_MSTATUS_SPIE_MASK),
                                       Not(CSR_MSTATUS_SIE_MASK)))),
                  Shl(Bits(spp), 8)),
               Shl(spie, 5))
    IN  IF sepc.panic THEN Panic(e1)
        ELSE unwrap_then(write_csr(e1, CSR_SEPC, sepc.v),
               LAMBDA e2 : unwrap_then(write_csr(e2, CSR_SSTATUS, next_sstatus),
                 LAMBDA e3 : unwrap_then(write_csr(e3, CSR_SCAUSE, code),
                   LAMBDA e4 : Ok(e4, "unit"))))

\* the machine-mode half of handle_exception
trap_to_m(e, x) ==
    LET code    == ExceptionCode(x)
        mpp     == e.current_priv
        e1      == [e EXCEPT !.current_priv = PrivM]
        mstatus == read_raw_csr(e1, CSR_MSTATUS).v
        mpie    == Shr(And(mstatus, CSR_MSTATUS_MIE_MASK), 3)
        mepc    == trap_epc(e1, 63 \in code)
        next_mstatus ==
            Or(Or(And(mstatus, And(Not(CSR_MSTATUS_MPP_MASK),
                                   And(Not(CSR_MSTATUS_MPIE_MASK),
                                       Not(CSR_MSTATUS_MIE_MASK)))),
                  Shl(Bits(mpp), 11)),
               Shl(mpie, 7))
    IN  IF mepc.panic THEN Panic(e1)
        ELSE unwrap_then(write_csr(e1, CSR_MEPC, mepc.v),
               LAMBDA e2 : unwrap_then(write_csr(e2, CSR_MSTATUS, next_mstatus),
                 LAMBDA e3 : unwrap_then(write_csr(e3, CSR_MCAUSE, code),
                   LAMBDA e4 : Ok(e4, "unit"))))

\* self.write_reg(Register::Pc, xtvec & !0x3)
exception_direct_jump(e, xtvec) == Ok(write_pc(e, And(xtvec, Not(Bits(3)))), "unit")

\* base + cause * 4, in M-mode only
interupt_vectored_jump(e, xtvec, xcause) ==
    LET base   == And(xtvec, Not(Bits(3)))
        cause  == And(xcause, Not(Bit(63)))
        target == checked_add(e, base, Shl(cause, 2))
    IN  IF e.current_priv # PrivM THEN Panic(e)
        ELSE IF target.panic \/ (e.overflow_checks /\ Shl(cause, 2) # {i + 2 : i \in cause})
        THEN Panic(e)
        ELSE Ok(write_pc(e, target.v), "unit")

\* write xTVAL, then jump to the base of xTVEC
trap_with_tval(e, xtvec, xtval) ==
    unwrap_then(write_csr(e, IF e.current_priv = PrivM THEN CSR_MTVAL ELSE CSR_STVAL, xtval),
                LAMBDA e1 : exception_direct_jump(e1, xtvec))

\* the last part of handle_exception: where the trap goes
trap_jump(e, x) ==
    LET r     == read_raw_csr(e, IF e.current_priv = PrivM THEN CSR_MTVEC ELSE CSR_STVEC)
        xtvec == r.v
        op     == Field(e.instruction, 0, 7)
        funct3 == Field(e.instruction, 12, 3)
        funct7 == Field(e.instruction, 25, 7)
    IN  IF ~r.ok THEN Panic(e)
        ELSE CASE x = "IllegralInstruction" ->
                    IF (e.c_instruction = Zero /\ e.instruction = Zero)
                       \/ (~is_c_extension_enabled(e) /\ Field(e.instruction, 0, 2) # 3)
                    THEN trap_with_tval(e, xtvec,
                                        IF e.c_instruction # Zero THEN e.c_instruction
                                        ELSE e.instruction)
                    ELSE IF op = 115 /\ (funct3 \in {1, 2} \/ (funct3 = 0 /\ funct7 = 9)
                                         \/ e.instruction = Bits(\h10200073))
                    THEN trap_with_tval(e, xtvec, e.instruction)
                    ELSE Panic(e)
               [] x = "SuperSoftInt" -> interupt_vectored_jump(e, xtvec, ExceptionCode(x))
               [] OTHER -> exception_direct_jump(e, xtvec)

\* handle_exception(x): Ok(e') or a panic
handle_exception(e, x) ==
    LET code         == ExceptionCode(x)
        is_interrupt == 63 \in code
        cause        == Val(And(code, Not(Bit(63))))
        medeleg      == read_raw_csr(e, CSR_MEDELEG).v
        mideleg      == read_raw_csr(e, CSR_MIDELEG).v
        delegated    == e.current_priv # PrivM
                        /\ ((~is_interrupt /\ cause \in medeleg)
                            \/ (is_interrupt /\ cause \in mideleg))
    IN  unwrap_then(IF delegated THEN trap_to_s(e, x) ELSE trap_to_m(e, x),
                    LAMBDA e1 : trap_jump(e1, x))

\* fetch(): the four bytes at the PC, little endian
fetch(e) ==
    LET f == Memory_read(e.memory, e.pc, 4) IN
    IF f.panic THEN Panic(e)
    ELSE Ok([e EXCEPT !.instruction = from_le_bytes(f.bytes)], "unit")

\* progress_pc whatever the class of the instruction
run_progress_four(e, flag) ==
    IF flag = "Jump" THEN Ok(e, "unit") ELSE Ok(write_pc(e, wrapping_add(e.pc, Bits(4))), "unit")

\* progress_pc / c_progress_pc, or nothing after a jump
run_progress(e, flag) ==
    LET n == checked_add(e, e.pc, Bits(IF flag = "Common" THEN 4 ELSE 2)) IN
    IF flag = "Jump" THEN Ok(e, "unit")
    ELSE IF n.panic THEN Panic(e)
    ELSE Ok(write_pc(e, n.v), "unit")

\* after add_cycle: the interrupt check i, then the advance of the PC
run_interrupt(e, flag, i) ==
    IF i = "panic" THEN Panic(e)
    ELSE IF i # "Ok" THEN handle_exception(e, i)
    ELSE run_progress(e, flag)

\* Ok(flag) of the match on exec()
run_ok(e, flag) == run_interrupt(e, flag, check_interrupt_active(e))

\* match self.exec()
run_match(r) ==
    CASE r.tag = "Err" -> handle_exception(r.e, r.x)
      [] r.tag = "Ok" -> run_ok(add_cycle(r.e), r.x)
      [] OTHER -> r

run_exec(f) == IF f.tag = "Ok" THEN run_match(exec(f.e)) ELSE f

\* one iteration of the loop of run(), after the finished flag is tested:
\* fetch, exec, then the trap or the cycle count, the interrupt check and the
\* advance of the PC
run_iteration(e) == run_exec(fetch(e))

\* check_riscv_tests_result(): [panic, v]
check_riscv_tests_result(e) ==
    LET r == read_memory(e, Bits(e.riscv_tests_exit_memory_address), 4)
    IN  [panic |-> r.panic, v |-> ~r.panic /\ r.bytes = <<1, 0, 0, 0>>]

\* Emulator::load: registers, PC and CSRs are reset, the flag is cleared and
\* the file is copied into memory
load(e, file) ==
    [e EXCEPT !.regs = [i \in 0..30 |-> Zero], !.pc = Zero, !.csr = Csr_default,
              !.riscv_tests_finished = FALSE, !.memory = Memory_load(file)]

-----------------------------------------------------------------------------
(* Program images: RV64 encodings of the instructions the behaviours run *)

R_type(funct7, rs2, rs1, funct3, rd, op) ==
    Or(Shl(Bits(funct7 * 32 + rs2), 20), Bits(rs1 * 32768 + funct3 * 4096 + rd * 128 + op))

\* imm is the 12-bit field (two's complement)
I_type(imm, rs1, funct3, rd, op) ==
    Or(Shl(Bits(imm), 20), Bits(rs1 * 32768 + funct3 * 4096 + rd * 128 + op))

S_type(imm, rs2, rs1, funct3, op) ==
    R_type(imm \div 32, rs2, rs1, funct3, imm % 32, op)

\* imm is the 13-bit byte offset (two's complement, even)
B_type(imm, rs2, rs1, funct3) ==
    R_type((imm \div 4096) * 64 + ((imm \div 32) % 64), rs2, rs1, funct3,
           ((imm \div 2) % 16) * 2 + ((imm \div 2048) % 2), 99)

\* imm is the 21-bit byte offset (two's complement, even)
J_type(imm, rd) ==
    Or(Shl(Bits((imm \div 1048576) * 524288 + ((imm \div 2) % 1024) * 512
                + ((imm \div 2048) % 2) * 256 + ((imm \div 4096) % 256)), 12),
       Bits(rd * 128 + 111))

ADDI(rd, rs1, imm) == I_type(imm, rs1, 0, rd, 19)

SLLI(rd, rs1, shamt) == I_type(shamt, rs1, 1, rd, 19)

LD(rd, rs1, imm) == I_type(imm, rs1, 3, rd, 3)

LW(rd, rs1, imm) == I_type(imm, rs1, 2, rd, 3)

SW(rs2, rs1, imm) == S_type(imm, rs2, rs1, 2, 35)

SD(rs2, rs1, imm) == S_type(imm, rs2, rs1, 3, 35)

SB(rs2, rs1, imm) == S_type(imm, rs2, rs1, 0, 35)

BEQ(rs1, rs2, imm) == B_type(imm, rs2, rs1, 0)

BNE(rs1, rs2, imm) == B_type(imm, rs2, rs1, 1)

JAL(rd, imm) == J_type(imm, rd)

JALR(rd, rs1, imm) == I_type(imm, rs1, 0, rd, 103)

ADD(rd, rs1, rs2) == R_type(0, rs2, rs1, 0, rd, 51)

LR_W(rd, rs1) == R_type(8, 0, rs1, 2, rd, 47)

SC_W(rd, rs1, rs2) == R_type(12, rs2, rs1, 2, rd, 47)

AMOADD_W(rd, rs1, rs2) == R_type(0, rs2, rs1, 2, rd, 47)

AMOSWAP_W(rd, rs1, rs2) == R_type(4, rs2, rs1, 2, rd, 47)

CSRRW(rd, c, rs1) == I_type(c, rs1, 1, rd, 115)

CSRRS(rd, c, rs1) == I_type(c, rs1, 2, rd, 115)

CSRRC(rd, c, rs1) == I_type(c, rs1, 3, rd, 115)

CSRRWI(rd, c, uimm) == I_type(c, uimm, 5, rd, 115)

CSRRSI(rd, c, uimm) == I_type(c, uimm, 6, rd, 115)

CSRRCI(rd, c, uimm) == I_type(c, uimm, 7, rd, 115)

ECALL == Bits(\h00000073)

SRET == Bits(\h10200073)

WFI == Bits(\h10500073)

MRET == Bits(\h30200073)

\* c.li rd, imm (imm is the 6-bit field)
C_LI(rd, imm) == Bits(16384 + (imm \div 32) * 4096 + rd * 128 + (imm % 32) * 4 + 1)

\* c.slli rd, shamt
C_SLLI(rd, shamt) == Bits((shamt \div 32) * 4096 + rd * 128 + (shamt % 32) * 4 + 2)

C_NOP == Bits(1)

\* c.j offset (an even offset below 64)
C_J(offset) ==
    Bits(\ha001 + ((offset \div 2) % 8) * 8 + ((offset \div 16) % 2) * 2048
         + ((offset \div 32) % 2) * 4)

\* c.beqz rs1, offset and c.bnez rs1, offset (rs1 in x8..x15, an even offset
\* below 32)
C_BEQZ(rs1, offset) ==
    Bits(\hc001 + (rs1 - 8) * 128 + ((offset \div 2) % 4) * 8 + ((offset \div 8) % 4) * 1024)

C_BNEZ(rs1, offset) ==
    Bits(\he001 + (rs1 - 8) * 128 + ((offset \div 2) % 4) * 8 + ((offset \div 8) % 4) * 1024)

C_JR(rs1) == Bits(\h8002 + rs1 * 128)

C_JALR(rs1) == Bits(\h9002 + rs1 * 128)

\* the bytes of a sequence of instructions: 4 bytes each, 2 for a compressed one
RECURSIVE Asm(_)
Asm(ws) ==
    IF ws = <<>> THEN <<>>
    ELSE to_le_bytes(Head(ws), IF Field(Head(ws), 0, 2) = 3 THEN 4 ELSE 2)
         \o Asm(Tail(ws))

\* the last word of memory: the only address a 4-byte store reaches
LastWord == MAX - 4

\* stores to the last word (of 1, then of 0), and a store to address 8
ExitPrograms ==
    { <<ADDI(1, 0, 1), SW(1, 0, LastWord)>>,
      <<SW(0, 0, LastWord)>>,
      <<SW(0, 0, 8)>>,
      <<LR_W(5, 0), SB(0, 0, MAX - 1), ADDI(1, 0, 1), SW(1, 0, LastWord)>> }

\* every kind of instruction with rd = x0, then x2 = x0 + x0
X0Programs ==
    { <<ADDI(1, 0, LastWord), ADDI(0, 1, 1), LW(0, 0, 0), AMOADD_W(0, 1, 1),
        ADD(2, 0, 0)>>,
      <<CSRRS(0, CSR_MISA, 0), JAL(0, 4), ADDI(1, 0, 16), JALR(0, 1, 0),
        ADD(2, 0, 0)>> }

\* mstatus.MPP, MPIE and MIE are set, then MRET to pc 20, where last stands
MretProgram(mpp, mpie, mie, last) ==
    <<ADDI(1, 0, (mpp * 16 + mpie) * 16 + mie), C_SLLI(1, 3),
      CSRRW(0, CSR_MSTATUS, 1), CSRRWI(0, CSR_MEPC, 20), MRET, C_NOP, last>>

\* MRET to a store to the last word, and MRET to a WFI
MretPrograms ==
    { MretProgram(mpp, mpie, mie, SW(0, 0, LastWord)) :
        mpp \in 0..3, mpie \in 0..1, mie \in 0..1 }
    \cup { MretProgram(mpp, 0, 0, WFI) : mpp \in {1, 3} }

\* writes of sstatus while mstatus.MIE is set, then reads of both
SstatusPrograms ==
    { <<CSRRSI(0, CSR_MSTATUS, 8), ADDI(1, 0, v), i,
        CSRRS(6, CSR_SSTATUS, 0), CSRRS(7, CSR_MSTATUS, 0)>> :
      v \in {0, \h122, \h1aa, \h7ff},
      i \in {CSRRW(5, CSR_SSTATUS, 1), CSRRS(5, CSR_SSTATUS, 1), CSRRC(5, CSR_SSTATUS, 1)} }

\* writes of all-ones to mepc and sepc, an ECALL at a pc that is not a multiple
\* of 4, an ECALL from U-mode that medeleg delegates, and an ECALL in M-mode
\* with every bit of medeleg set
EpcPrograms ==
    { <<ADDI(1, 0, 4095), CSRRW(0, CSR_MEPC, 1), CSRRW(0, CSR_SEPC, 1), C_NOP, ECALL>>,
      <<ADDI(1, 0, 256), CSRRW(0, CSR_MEDELEG, 1), CSRRWI(0, CSR_MEPC, 18), MRET,
        C_NOP, ECALL>>,
      <<ADDI(1, 0, 4095), CSRRW(0, CSR_MEDELEG, 1), ECALL>> }

\* three LR.W: at 0, at a and at b (60 is -4, the last word of the address
\* space)
LrPrograms ==
    { <<C_LI(1, a), C_LI(2, b), LR_W(0, 0), LR_W(0, 1), LR_W(0, 2)>> :
      a \in {2, 4, 8, 60}, b \in {4, 12, 60} }

\* the C extension is switched off at pc 2, then a branch whose target is not
\* a multiple of 4: taken from pc 6, and (after a jump) taken or not from pc 12
BranchPrograms ==
    { <<C_NOP, CSRRW(0, CSR_MISA, 0), BEQ(0, 0, 4)>>,
      <<C_NOP, CSRRW(0, CSR_MISA, 0), JAL(0, 6), C_NOP, BEQ(0, 0, 6)>>,
      <<C_NOP, CSRRW(0, CSR_MISA, 0), JAL(0, 6), C_NOP, BNE(0, 0, 6)>> }

\* LR.W at the last word, an ordinary SW of x1 to it, then SC.W of x0 to it
ScPrograms ==
    { <<ADDI(1, 0, LastWord), LR_W(5, 1), SW(1, 1, 0), SC_W(3, 1, 0)>> }

\* CSR accesses that are refused: a write of mscratch from U-mode and from
\* S-mode, and writes of cycle (read-only) in M-mode
CsrPrivPrograms ==
    { MretProgram(mpp, 0, 0, CSRRW(0, CSR_MSCRATCH, 1)) : mpp \in {0, 1} }
    \cup { <<ADDI(1, 0, 1), CSRRW(0, CSR_CYCLE, 1), CSRRS(5, CSR_CYCLE, 1)>>,
           <<CSRRWI(0, CSR_CYCLE, 1)>> }

\* interrupt m (supervisor software 2, machine software 8) is enabled and made
\* pending: with mstatus.MIE set last in M-mode, set first, set by an MRET
\* that enters U-mode, or set by an MRET that stays in M-mode
IntPrograms ==
    { <<CSRRSI(0, CSR_MIE, m), CSRRSI(0, CSR_MIP, m), CSRRSI(0, CSR_MSTATUS, 8)>> :
        m \in {2, 8} }
    \cup { <<CSRRSI(0, CSR_MSTATUS, 8), CSRRSI(0, CSR_MIE, 2), CSRRSI(0, CSR_MIP, 2)>>,
           <<CSRRSI(0, CSR_MIE, 2), CSRRSI(0, CSR_MIP, 2), ADDI(1, 0, 128),
             CSRRW(0, CSR_MSTATUS, 1), CSRRWI(0, CSR_MEPC, 24), MRET, C_NOP>>,
           <<CSRRSI(0, CSR_MIE, 2), CSRRSI(0, CSR_MIP, 2)>> \o MretProgram(3, 1, 0, C_NOP) }

\* sstatus.SPP and SPIE are set, then SRET in M-mode to pc 16
SretPrograms ==
    { <<ADDI(1, 0, v), CSRRW(0, CSR_SSTATUS, 1), CSRRWI(0, CSR_SEPC, 16), SRET, C_NOP>> :
        v \in {0, \h20, \h100, \h120} }

\* CSR instructions with rd = x5 whose write is refused: cycle is read-only,
\* mstatus bit 6 is not supported, satp takes no value but 0
CsrTrapPrograms ==
    { <<ADDI(1, 0, 1), CSRRS(5, CSR_CYCLE, 1)>>,
      <<ADDI(1, 0, 1), CSRRC(5, CSR_CYCLE, 1)>>,
      <<ADDI(1, 0, \h40), CSRRS(5, CSR_MSTATUS, 1)>>,
      <<ADDI(5, 0, 7), CSRRSI(5, CSR_SATP, 1)>> }

Programs ==
    ExitPrograms \cup X0Programs \cup MretPrograms \cup SstatusPrograms
    \cup EpcPrograms \cup LrPrograms \cup BranchPrograms \cup ScPrograms
    \cup CsrPrivPrograms \cup IntPrograms \cup SretPrograms \cup CsrTrapPrograms

\* jumps and branches of both lengths, taken and not taken, each followed by
\* instructions of both lengths
JumpPrograms ==
    { <<C_J(4), C_NOP, ADDI(2, 0, 1), C_NOP>>,
      <<JAL(1, 8), C_NOP, C_NOP, ADDI(2, 0, 1)>>,
      <<ADDI(1, 0, 9), JALR(1, 1, 3), C_NOP, ADDI(2, 0, 1)>>,
      <<ADDI(5, 0, 9), JALR(1, 5, 0), C_NOP, C_NOP, ADDI(2, 0, 1)>>,
      <<ADDI(1, 0, 1), BEQ(1, 0, 8), BNE(1, 0, 6), C_NOP, C_NOP, ADDI(2, 0, 1)>> }
    \cup { <<C_LI(8, v), i, C_NOP, ADDI(2, 0, 1)>> :
             v \in {0, 1}, i \in {C_BEQZ(8, 4), C_BNEZ(8, 4)} }
    \cup { <<ADDI(r, 0, 9), C_JR(r), C_NOP, ADDI(2, 0, 1)>> : r \in {1, 5} }
    \cup { <<ADDI(r, 0, 9), C_JALR(r), C_NOP, ADDI(2, 0, 1)>> : r \in {1, 5} }

\* mscratch is written (all ones, or 0x555), then bits of it are set or
\* cleared from x2 = 0x0f0 or from the immediate 3
CsrBitPrograms ==
    { <<ADDI(1, 0, v), CSRRW(0, CSR_MSCRATCH, 1), ADDI(2, 0, \h0f0), i>> :
        v \in {4095, \h555},
        i \in {CSRRS(5, CSR_MSCRATCH, 2), CSRRC(5, CSR_MSCRATCH, 2),
               CSRRSI(5, CSR_MSCRATCH, 3), CSRRCI(5, CSR_MSCRATCH, 3)} }

\* x1 and x2 are set to: -1 and 3; 7 and 2^32; 2^32 + 9 and 2; 2^31 and -1
WordOperands ==
    { <<ADDI(1, 0, 4095), ADDI(2, 0, 3)>>,
      <<ADDI(1, 0, 7), ADDI(2, 0, 1), SLLI(2, 2, 32)>>,
      <<ADDI(1, 0, 1), SLLI(1, 1, 32), ADDI(1, 1, 9), ADDI(2, 0, 2)>>,
      <<ADDI(1, 0, 1), SLLI(1, 1, 31), ADDI(2, 0, 4095)>> }

\* (funct3, funct7) of ADDW MULW SUBW SLLW DIVW SRLW DIVUW SRAW REMW REMUW
WordOps ==
    { <<0, 0>>, <<0, 1>>, <<0, 32>>, <<1, 0>>, <<4, 1>>, <<5, 0>>, <<5, 1>>, <<5, 32>>,
      <<6, 1>>, <<7, 1>> }

\* (funct3, funct7) of ADDIW SLLIW SRLIW SRAIW
WordImmOps == { <<0, 0>>, <<1, 0>>, <<5, 0>>, <<5, 32>> }

\* x3 = x1 op x2 for every W-suffixed operation, and x3 = x1 op 3 for those
\* with an immediate
WordPrograms ==
    { o \o <<R_type(k[2], 2, 1, k[1], 3, 59)>> : o \in WordOperands, k \in WordOps }
    \cup { o \o <<I_type(k[2] * 32 + 3, 1, k[1], 3, 27)>> :
             o \in WordOperands, k \in WordImmOps }

\* two LR.W (x0 holds address 0, x1 the last word), then an SC.W of x2 = 0x55
\* to one of the two words; and an SC.W with no LR.W before it
LrScPrograms ==
    { <<ADDI(1, 0, LastWord), ADDI(2, 0, \h55), LR_W(5, a), LR_W(6, b), SC_W(3, c, 2)>> :
        a \in {0, 1}, b \in {0, 1}, c \in {0, 1} }
    \cup { <<ADDI(1, 0, LastWord), ADDI(2, 0, \h55), SC_W(3, 1, 2)>> }

\* every AMO of x2 = 0x55 to the last word (.W) and the last doubleword (.D)
\* of memory, with rd = x3
AmoPrograms ==
    { <<ADDI(1, 0, MAX - 4 * (funct3 - 1)), ADDI(2, 0, \h55),
        R_type(funct5 * 4, 2, 1, funct3, 3, 47)>> :
        funct5 \in AmoFunct5, funct3 \in {2, 3} }

\* images that make the host return, spin in WFI and abort
HostPrograms ==
    ExitPrograms \cup { MretProgram(3, 0, 0, WFI), <<CSRRWI(0, CSR_CYCLE, 1)>> }

\* the images of the second specification: jumps, CSR bit operations and
\* 32-bit arithmetic, run by the same host
IsaPrograms == HostPrograms \cup JumpPrograms \cup CsrBitPrograms \cup WordPrograms

\* the images of the third specification: the atomic instructions
AtomicPrograms == HostPrograms \cup LrScPrograms \cup AmoPrograms

\* the addresses the host passes to set_riscv_tests_exit_memory_address
ExitAddresses == {8, LastWord}

-----------------------------------------------------------------------------
(* The harness: Emulator::default(), load, set the exit address, run, check *)

\* the emulator's fields take the values of e
Commit(e) ==
    /\ memory' = e.memory
    /\ regs' = e.regs
    /\ csr' = e.csr
    /\ pc' = e.pc
    /\ current_priv' = e.current_priv
    /\ instruction' = e.instruction
    /\ c_instruction' = e.c_instruction
    /\ reserved_memory_ranges' = e.reserved_memory_ranges
    /\ riscv_tests_finished' = e.riscv_tests_finished
    /\ riscv_tests_exit_memory_address' = e.riscv_tests_exit_memory_address

emulator == <<memory, regs, csr, pc, current_priv, instruction, c_instruction,
              reserved_memory_ranges, riscv_tests_finished,
              riscv_tests_exit_memory_address>>

\* Emulator::default()
Emulator_default ==
    /\ memory = [a \in 0..(MAX - 1) |-> 0]
    /\ regs = [i \in 0..30 |-> Zero]
    /\ csr = Csr_default
    /\ pc = Zero
    /\ current_priv = PrivM
    /\ instruction = Zero
    /\ c_instruction = Zero
    /\ reserved_memory_ranges = <<>>
    /\ riscv_tests_finished = FALSE
    /\ riscv_tests_exit_memory_address = 0

Init ==
    /\ Emulator_default
    /\ at = "idle"
    /\ panicked = FALSE
    /\ ret = "none"
    /\ steps = 0

\* emulator.load(file) with the image of one of the programs; the host loads,
\* sets the exit address, runs, checks the result and loads the next image
LoadFrom(programs) ==
    /\ at = "idle" /\ ~panicked /\ ret # "loaded"
    /\ \E p \in programs : Commit(load(Emu(FALSE), Asm(p)))
    /\ ret' = "loaded"
    /\ UNCHANGED <<at, panicked, steps>>

Load == LoadFrom(Programs)

\* emulator.set_riscv_tests_exit_memory_address(a)
SetExit ==
    /\ at = "idle" /\ ~panicked /\ ret = "loaded"
    /\ \E a \in ExitAddresses : riscv_tests_exit_memory_address' = a
    /\ UNCHANGED <<memory, regs, csr, pc, current_priv, instruction, c_instruction,
                   reserved_memory_ranges, riscv_tests_finished, at, panicked, ret,
                   steps>>

\* emulator.run() is called
Run ==
    /\ at = "idle" /\ ~panicked /\ ret = "loaded"
    /\ at' = "loop"
    /\ ret' = "running"
    /\ UNCHANGED <<emulator, panicked, steps>>

\* how an iteration of the loop ends: the emulator goes on, the process
\* aborts, or WFI spins for ever
StepTo(r) ==
    \/ /\ r.tag = "Ok"
       /\ Commit(r.e)
       /\ UNCHANGED <<at, panicked, ret>>
    \/ /\ r.tag = "Panic"
       /\ Commit(r.e)
       /\ panicked' = TRUE
       /\ UNCHANGED <<at, ret>>
    \/ /\ r.tag = "Hang"
       /\ at' = "wfi"
       /\ UNCHANGED <<emulator, panicked, ret>>

\* one iteration of the loop of run(); a panic leaves the emulator as it was
\* when the process aborted
Step ==
    /\ at = "loop" /\ ~panicked /\ ~riscv_tests_finished
    /\ steps < MaxSteps
    /\ steps' = steps + 1
    /\ \E oc \in BOOLEAN : StepTo(run_iteration(Emu(oc)))

\* the loop of run() sees the finished flag and run() returns
Return ==
    /\ at = "loop" /\ ~panicked /\ riscv_tests_finished
    /\ at' = "idle"
    /\ ret' = "returned"
    /\ UNCHANGED <<emulator, panicked, steps>>

\* emulator.check_riscv_tests_result()
Check ==
    /\ at = "idle" /\ ~panicked /\ ret = "returned"
    /\ LET r == check_riscv_tests_result(Emu(FALSE)) IN
       IF r.panic THEN panicked' = TRUE /\ ret' = ret
       ELSE panicked' = FALSE /\ ret' = IF r.v THEN "pass" ELSE "fail"
    /\ UNCHANGED <<emulator, at, steps>>

Next == Load \/ SetExit \/ Run \/ Step \/ Return \/ Check

Spec == Init /\ [][Next]_vars

\* the same host running the images of IsaPrograms
LoadIsa == LoadFrom(IsaPrograms)

NextIsa == LoadIsa \/ SetExit \/ Run \/ Step \/ Return \/ Check

SpecIsa == Init /\ [][NextIsa]_vars

\* the same host running the images of AtomicPrograms
LoadAtomic == LoadFrom(AtomicPrograms)

NextAtomic == LoadAtomic \/ SetExit \/ Run \/ Step \/ Return \/ Check

SpecAtomic == Init /\ [][NextAtomic]_vars

-----------------------------------------------------------------------------
(* Memory<MAX> on its own: writes and reads at any address *)

\* how many calls a behaviour of the two specifications below makes
UnitSteps == 3

\* addresses at the bottom, around the top and beyond the end of memory
MemAddresses ==
    {Bits(a) : a \in {0, 1, MAX - 8, MAX - 4, MAX - 2, MAX - 1, MAX, MAX + 1}}
    \cup {AllOnes}

MemSizes == {1, 2, 4, 8}

\* the N bytes written: b+1, b+2, ...
MemValues(N) == {[k \in 1..N |-> b + k] : b \in {16, 160}}

InitMem ==
    /\ Emulator_default
    /\ at = "idle"
    /\ panicked = FALSE
    /\ ret = [call |-> "none"]
    /\ steps = 0

\* memory.write(address, values)
MemWrite ==
    /\ ~panicked /\ steps < UnitSteps
    /\ \E address \in MemAddresses, N \in MemSizes :
       \E values \in MemValues(N) :
          LET w == Memory_write(memory, address, values) IN
          /\ memory' = w.array
          /\ panicked' = w.panic
          /\ ret' = [call |-> "write", address |-> address, values |-> values,
                     before |-> memory]
    /\ steps' = steps + 1
    /\ UNCHANGED <<regs, csr, pc, current_priv, instruction, c_instruction,
                   reserved_memory_ranges, riscv_tests_finished,
                   riscv_tests_exit_memory_address, at>>

\* memory.read::<N>(address) of what was just written
MemRead ==
    /\ ~panicked /\ steps < UnitSteps
    /\ ret.call = "write"
    /\ LET r == Memory_read(memory, ret.address, Len(ret.values)) IN
       /\ panicked' = r.panic
       /\ ret' = [call |-> "read", address |-> ret.address, values |-> ret.values,
                  before |-> ret.before, bytes |-> r.bytes]
    /\ steps' = steps + 1
    /\ UNCHANGED <<emulator, at>>

NextMem == MemWrite \/ MemRead

SpecMem == InitMem /\ [][NextMem]_vars

-----------------------------------------------------------------------------
(* The CSR file on its own: write_csr and read_csr in M-mode *)

\* the registers the write masks of which are checked
CsrNumbers ==
    {CSR_MEDELEG, CSR_MIDELEG, CSR_MIE, CSR_MIP, CSR_MTVEC, CSR_STVEC, CSR_MEPC,
     CSR_SEPC, CSR_MSCRATCH, CSR_MTVAL}

CsrValues == {Zero, AllOnes, Bits(\h12345), {i \in BitIdx : i % 2 = 1}}

\* write_csr(c, value)
CsrWrite ==
    /\ ~panicked /\ steps < UnitSteps
    /\ \E c \in CsrNumbers, value \in CsrValues :
          LET r == write_csr(Emu(FALSE), c, value) IN
          /\ Commit(r.e)
          /\ panicked' = (r.tag = "Panic")
          /\ ret' = [call |-> "write_csr", c |-> c, value |-> value, result |-> r.tag]
    /\ steps' = steps + 1
    /\ UNCHANGED at

\* read_csr(c) of the register just written
CsrRead ==
    /\ ~panicked /\ steps < UnitSteps
    /\ ret.call = "write_csr" /\ ret.result = "Ok"
    /\ LET r == read_csr(Emu(FALSE), ret.c) IN
       /\ panicked' = (r.tag = "Panic")
       /\ ret' = [call |-> "read_csr", c |-> ret.c, value |-> ret.value,
                  result |-> r.tag, read |-> IF r.tag = "Ok" THEN r.x ELSE Zero]
    /\ steps' = steps + 1
    /\ UNCHANGED <<emulator, at>>

NextCsr == CsrWrite \/ CsrRead

SpecCsr == InitMem /\ [][NextCsr]_vars

-----------------------------------------------------------------------------
(* Properties *)

\* C1: x0 reads 0 in every reachable state, whatever instructions ran before
\* (those with rd = x0 included), and an ADD x2, x0, x0 leaves 0 in x2
X0ReadsZero ==
    /\ \A oc \in BOOLEAN : read_reg(Emu(oc), 0) = Zero
    /\ (instruction = ADD(2, 0, 0) /\ at = "loop") => regs[1] = Zero

\* C1: an ADDI, a LW and an AMOADD.W with rd = x0 have run (x1 holds the
\* operand, the AMO has stored) and ADD x2, x0, x0 has executed after them
X0AfterWrites ==
    /\ instruction = ADD(2, 0, 0)
    /\ pc = Bits(20)
    /\ regs[0] = Bits(LastWord)
    /\ memory[LastWord] # 0

\* C2: a store to the exit address ends run() by a return (the process does
\* not abort and no further instruction executes), and the result checked
\* afterwards is "pass" exactly when the four bytes at the exit address are
\* 01 00 00 00
ExitStoreEndsRun ==
    /\ riscv_tests_finished => ~panicked
    /\ (at = "loop" /\ riscv_tests_finished) => ~ENABLED Step
    /\ ret \in {"pass", "fail"} =>
          (ret = "pass" <=>
              Slice(memory, riscv_tests_exit_memory_address,
                    riscv_tests_exit_memory_address + 4) = <<1, 0, 0, 0>>)

\* C3: right after load(), whatever ran before, every general register is 0,
\* the PC is 0, the privilege is M, the finished flag is clear and every CSR
\* has its default value
LoadResets ==
    ret = "loaded" =>
        /\ regs = [i \in 0..30 |-> Zero]
        /\ pc = Zero
        /\ current_priv = PrivM
        /\ ~riscv_tests_finished
        /\ csr = Csr_default

\* C4: a write of N bytes never fails and changes no byte outside the N
\* positions (address + i) mod MAX, and the read of N bytes at the same
\* address that follows never fails and returns the bytes written
WriteThenRead ==
    /\ ~panicked
    /\ ret.call \in {"write", "read"} =>
          \A k \in 0..(MAX - 1) :
             k \notin {(WMod(ret.address, MAX) + i) % MAX : i \in 0..(Len(ret.values) - 1)}
                => memory[k] = ret.before[k]
    /\ ret.call = "read" => ret.bytes = ret.values

\* the WARL mask a CSR is written through
WarlMask(c) ==
    CASE c = CSR_MEDELEG -> Bits(\hcbbff)
      [] c = CSR_MIDELEG -> Bits(\h2aaa)
      [] c \in {CSR_MIE, CSR_MIP} -> Bits(\haaa)
      [] c \in {CSR_MTVEC, CSR_STVEC} -> Not(Bits(2))
      [] c \in {CSR_MEPC, CSR_SEPC} -> Not(Bits(3))
      [] OTHER -> AllOnes

\* C5: in M-mode the read_csr(c) that follows a successful write_csr(c, v)
\* succeeds and returns v & mask(c)
CsrWriteThenRead ==
    ret.call = "read_csr" =>
        /\ ret.result = "Ok"
        /\ ret.read = And(ret.value, WarlMask(ret.c))

\* a CSR instruction that names sstatus
IsSstatusWrite(i) ==
    /\ Field(i, 0, 7) = 115
    /\ Field(i, 12, 3) \in {1, 2, 3, 5, 6, 7}
    /\ Field(i, 20, 12) = CSR_SSTATUS

\* the bits of mstatus that sstatus does not show
OutsideSstatus(mstatus) == And(mstatus, Not(Bits(\h122)))

\* C6: in every reachable state sstatus reads as mstatus & 0x122, and neither
\* the CSR instruction about to execute, if it names sstatus, nor a
\* write_csr(sstatus, v) changes a bit of mstatus outside 0x122
SstatusIsView ==
    /\ read_raw_csr(Emu(FALSE), CSR_SSTATUS) = [ok |-> TRUE, v |-> And(csr.mstatus, Bits(\h122))]
    /\ current_priv # PrivU =>
          read_csr(Emu(FALSE), CSR_SSTATUS).x = And(csr.mstatus, Bits(\h122))
    /\ \A v \in {Zero, Bits(\h122), Bits(\h1aa), Bits(\hbb), Not(SSTATUS_UNSUPPORTED)} :
          OutsideSstatus(write_csr(Emu(FALSE), CSR_SSTATUS, v).e.csr.mstatus)
             = OutsideSstatus(csr.mstatus)
    /\ \A oc \in BOOLEAN :
          (at = "loop" /\ fetch(Emu(oc)).tag = "Ok"
             /\ IsSstatusWrite(fetch(Emu(oc)).e.instruction)
             /\ exec(fetch(Emu(oc)).e).tag = "Ok")
          => OutsideSstatus(exec(fetch(Emu(oc)).e).e.csr.mstatus) = OutsideSstatus(csr.mstatus)

\* C6: CSRRW x5, sstatus, x1 has executed with x1 = 0x1aa while mstatus.MIE
\* was set and MPIE clear: SIE, SPIE and SPP are now set, MIE is still set
\* and MPIE still clear
SstatusWritten ==
    /\ instruction = CSRRW(5, CSR_SSTATUS, 1)
    /\ regs[0] = Bits(\h1aa)
    /\ pc = Bits(12)
    /\ And(csr.mstatus, LowMask(32)) = Bits(\h12a)

\* C7: the low two bits of mepc and of sepc are zero in every reachable state
EpcAligned ==
    /\ And(csr.mepc, Bits(3)) = Zero
    /\ And(csr.sepc, Bits(3)) = Zero

\* C7: all-ones was written to mepc and to sepc, then an ECALL at pc 14
\* entered the trap handler
EpcWritten ==
    /\ csr.sepc = Not(Bits(3))
    /\ csr.mepc = Bits(12)
    /\ csr.mcause = Bits(11)
    /\ instruction = ECALL

\* C8: an MRET about to execute in M-mode completes; afterwards MIE is the
\* previous MPIE, MPIE is 1, MPP is 0, the privilege is the previous MPP, the
\* PC is mepc, and the run loop does not advance it
MretReturns ==
    \A oc \in BOOLEAN :
       (at = "loop" /\ ~panicked /\ ~riscv_tests_finished /\ current_priv = PrivM
          /\ fetch(Emu(oc)).tag = "Ok" /\ fetch(Emu(oc)).e.instruction = MRET)
       => /\ exec(fetch(Emu(oc)).e).tag = "Ok"
          /\ (3 \in exec(fetch(Emu(oc)).e).e.csr.mstatus <=> 7 \in csr.mstatus)
          /\ 7 \in exec(fetch(Emu(oc)).e).e.csr.mstatus
          /\ Field(exec(fetch(Emu(oc)).e).e.csr.mstatus, 11, 2) = PrivU
          /\ exec(fetch(Emu(oc)).e).e.current_priv = Field(csr.mstatus, 11, 2)
          /\ exec(fetch(Emu(oc)).e).e.pc = csr.mepc
          /\ run_iteration(Emu(oc)).tag = "Ok"
          /\ run_iteration(Emu(oc)).e.pc = csr.mepc

\* the interval (begin, end) holds the address a; an interval whose end is
\* below its begin runs over the top of the address space
Covers(r, a) ==
    IF Less(r[2], r[1])
    THEN ~Less(a, r[1]) \/ Less(a, r[2])
    ELSE ~Less(a, r[1]) /\ Less(a, r[2])

Overlap(r, s) == Covers(r, s[1]) \/ Covers(s, r[1])

\* C9: no two stored reservations share an address
ReservationsDisjoint ==
    \A i, j \in 1..Len(reserved_memory_ranges) :
       i < j => ~Overlap(reserved_memory_ranges[i], reserved_memory_ranges[j])

\* the branch at the PC, if it is one that is taken
TakenBranch(e) ==
    /\ Field(e.instruction, 0, 7) = 99
    /\ Field(e.instruction, 12, 3) \notin {2, 3}
    /\ branch_taken(Field(e.instruction, 12, 3),
                    read_reg(e, extract_b_type(e.instruction).rs1),
                    read_reg(e, extract_b_type(e.instruction).rs2))

BranchTarget(e) == wrapping_add(e.pc, sign_extend(12, extract_b_type(e.instruction).imm))

\* the xEPC of the mode the emulator is in
CurrentEpc(e) == IF e.current_priv = PrivS THEN e.csr.sepc ELSE e.csr.mepc

\* C10: a taken branch about to execute with the C extension disabled and a
\* target that is not a multiple of 4 raises InstructionAddressMisaligned,
\* the trap is taken, the PC is not the target afterwards and xEPC is the
\* address of the branch
MisalignedBranchTraps ==
    \A oc \in BOOLEAN :
       (at = "loop" /\ ~panicked /\ ~riscv_tests_finished
          /\ fetch(Emu(oc)).tag = "Ok"
          /\ Field(fetch(Emu(oc)).e.instruction, 0, 2) = 3
          /\ TakenBranch(fetch(Emu(oc)).e)
          /\ ~is_c_extension_enabled(Emu(oc))
          /\ WMod(BranchTarget(fetch(Emu(oc)).e), 4) # 0)
       => /\ exec(fetch(Emu(oc)).e).tag = "Err"
          /\ exec(fetch(Emu(oc)).e).x = "InstructionAddressMissaligned"
          /\ run_iteration(Emu(oc)).tag = "Ok"
          /\ run_iteration(Emu(oc)).e.pc # BranchTarget(fetch(Emu(oc)).e)
          /\ CurrentEpc(run_iteration(Emu(oc)).e) = pc

\* C11: the SC.W that follows LR.W and an ordinary SW to the same word writes
\* 1 to rd and stores nothing: the word still holds what the SW wrote
ScAfterStoreFails ==
    \A oc \in BOOLEAN :
       (at = "loop" /\ ~panicked /\ ~riscv_tests_finished
          /\ pc = Bits(12) /\ regs[0] = Bits(LastWord)
          /\ fetch(Emu(oc)).tag = "Ok"
          /\ fetch(Emu(oc)).e.instruction = SC_W(3, 1, 0)
          /\ Slice(memory, LastWord, MAX) = to_le_bytes(Bits(LastWord), 4)
          /\ Len(reserved_memory_ranges) = 1)
       => /\ run_iteration(Emu(oc)).tag = "Ok"
          /\ run_iteration(Emu(oc)).e.regs[2] = Bits(1)
          /\ run_iteration(Emu(oc)).e.memory = memory

\* the CSR addresses probed: every register the code names, and unnamed ones
\* of each privilege and of the read-only quarter
CsrProbe ==
    {CSR_SSTATUS, CSR_STVEC, CSR_SEPC, CSR_SATP, CSR_MSTATUS, CSR_MISA,
     CSR_MEDELEG, CSR_MIDELEG, CSR_MIE, CSR_MTVEC, CSR_MCOUNTEREN, CSR_MSCRATCH,
     CSR_MEPC, CSR_MCAUSE, CSR_MTVAL, CSR_MIP, CSR_MCYCLE, CSR_CYCLE,
     CSR_MVENDORID, CSR_MHARTID, \h001, \h1ff, \h2ff, \h7ff, \hc01, \hdff,
     \heff, \hfff}

\* the CSR address has bits [11:10] = 11
ReadOnlyCsr(c) == (c \div 1024) % 4 = 3

\* bits [9:8] of the CSR address exceed the privilege p
AbovePriv(c, p) == (c \div 256) % 4 > p

\* the CSR instruction i with the operand register value rs1 writes its CSR
CsrInstructionWrites(i, rs1) ==
    \/ Field(i, 12, 3) \in {1, 5}
    \/ Field(i, 12, 3) \in {2, 3} /\ rs1 # Zero
    \/ Field(i, 12, 3) \in {6, 7} /\ Field(i, 15, 5) # 0

\* C12: in every reachable state write_csr of a read-only CSR, or of one above
\* the current privilege, returns IllegalInstruction and changes nothing, and
\* read_csr of one above the privilege does too; a CSR instruction about to
\* execute that makes such an access ends in IllegalInstruction with every CSR
\* unchanged
CsrAccessRejected ==
    /\ \A c \in CsrProbe :
          /\ (ReadOnlyCsr(c) \/ AbovePriv(c, current_priv)) =>
                \A v \in {Zero, AllOnes} :
                   write_csr(Emu(FALSE), c, v) = Err(Emu(FALSE), "IllegralInstruction")
          /\ AbovePriv(c, current_priv) =>
                read_csr(Emu(FALSE), c) = Err(Emu(FALSE), "IllegralInstruction")
    /\ \A oc \in BOOLEAN :
          (at = "loop" /\ fetch(Emu(oc)).tag = "Ok"
             /\ Field(fetch(Emu(oc)).e.instruction, 0, 7) = 115
             /\ Field(fetch(Emu(oc)).e.instruction, 12, 3) \in {1, 2, 3, 5, 6, 7}
             /\ \/ AbovePriv(Field(fetch(Emu(oc)).e.instruction, 20, 12), current_priv)
                \/ /\ ReadOnlyCsr(Field(fetch(Emu(oc)).e.instruction, 20, 12))
                   /\ CsrInstructionWrites(fetch(Emu(oc)).e.instruction,
                          read_reg(Emu(oc), Field(fetch(Emu(oc)).e.instruction, 15, 5))))
          => /\ exec(fetch(Emu(oc)).e).tag = "Err"
             /\ exec(fetch(Emu(oc)).e).x = "IllegralInstruction"
             /\ exec(fetch(Emu(oc)).e).e.csr = csr

\* C12: in U-mode CSRRW x0, mscratch, x1 at pc 20 was refused and trapped to
\* M-mode with cause 2, mscratch still 0
CsrWriteRefused ==
    /\ instruction = CSRRW(0, CSR_MSCRATCH, 1)
    /\ csr.mcause = Bits(2)
    /\ csr.mepc = Bits(20)
    /\ Field(csr.mstatus, 11, 2) = PrivU
    /\ current_priv = PrivM
    /\ csr.mscratch = Zero

\* C13: an atomic instruction about to execute with an address in rs1 that is
\* not a multiple of its width (4 for .W, 8 for .D) raises
\* InstructionAddressMisaligned and leaves memory and the registers unchanged
AtomicMisalignedTraps ==
    \A oc \in BOOLEAN :
       (at = "loop" /\ ~panicked /\ ~riscv_tests_finished
          /\ fetch(Emu(oc)).tag = "Ok"
          /\ Field(fetch(Emu(oc)).e.instruction, 0, 7) = 47
          /\ Field(fetch(Emu(oc)).e.instruction, 12, 3) \in {2, 3}
          /\ WMod(read_reg(Emu(oc), Field(fetch(Emu(oc)).e.instruction, 15, 5)),
                  IF Field(fetch(Emu(oc)).e.instruction, 12, 3) = 2 THEN 4 ELSE 8) # 0)
       => /\ exec(fetch(Emu(oc)).e).tag = "Err"
          /\ exec(fetch(Emu(oc)).e).x = "InstructionAddressMissaligned"
          /\ exec(fetch(Emu(oc)).e).e.memory = memory
          /\ exec(fetch(Emu(oc)).e).e.regs = regs

\* the trap vector of the mode the emulator is in
CurrentTvec(e) == IF e.current_priv = PrivS THEN e.csr.stvec ELSE e.csr.mtvec

\* C14: when exec returns an exception for the instruction about to execute,
\* the iteration of run completes (the process does not abort) with the PC at
\* the base of the trap vector of the mode the trap was taken to
TrapsHandled ==
    \A oc \in BOOLEAN :
       (at = "loop" /\ ~panicked /\ ~riscv_tests_finished
          /\ fetch(Emu(oc)).tag = "Ok"
          /\ exec(fetch(Emu(oc)).e).tag = "Err")
       => /\ run_iteration(Emu(oc)).tag = "Ok"
          /\ run_iteration(Emu(oc)).e.pc
                = And(CurrentTvec(run_iteration(Emu(oc)).e), Not(Bits(3)))

\* the instruction about to execute, executed
Executed(oc) == exec(fetch(Emu(oc)).e)

\* the trap the iteration of run about to happen takes: the exception exec
\* returns, or the interrupt found after a successful instruction; "none" if
\* there is none
PendingTrap(oc) ==
    IF at # "loop" \/ panicked \/ riscv_tests_finished \/ fetch(Emu(oc)).tag # "Ok"
    THEN "none"
    ELSE IF Executed(oc).tag = "Err" THEN Executed(oc).x
    ELSE IF Executed(oc).tag = "Ok"
            /\ check_interrupt_active(add_cycle(Executed(oc).e)) \notin {"Ok", "panic"}
         THEN check_interrupt_active(add_cycle(Executed(oc).e))
    ELSE "none"

\* the emulator handle_exception is called on
TrapFrom(oc) ==
    IF Executed(oc).tag = "Err" THEN Executed(oc).e ELSE add_cycle(Executed(oc).e)

\* the mode the trap x taken in the state e is to be delivered to
TargetMode(e, x) ==
    IF e.current_priv # PrivM
       /\ Val(And(ExceptionCode(x), Not(Bit(63))))
             \in (IF 63 \in ExceptionCode(x) THEN e.csr.mideleg ELSE e.csr.medeleg)
    THEN PrivS ELSE PrivM

\* xstatus after a trap to X from the privilege p: XPP = p, XPIE = the old
\* XIE, XIE = 0, the other bits as they were
StatusAfterTrap(mstatus, X, p) ==
    IF X = PrivM
    THEN Or(And(mstatus, Not(Bits(\h1888))),
            Or(Shl(Bits(p), 11), IF 3 \in mstatus THEN Bit(7) ELSE Zero))
    ELSE Or(And(mstatus, Not(Bits(\h122))),
            Or(Shl(Bits(p), 8), IF 1 \in mstatus THEN Bit(5) ELSE Zero))

\* the trap x taken in e ended in r with the status and the privilege saved
TrapSaves(e, x, r) ==
    /\ r.tag = "Ok"
    /\ r.e.current_priv = TargetMode(e, x)
    /\ r.e.csr.mstatus = StatusAfterTrap(e.csr.mstatus, TargetMode(e, x), e.current_priv)

\* C15: a trap about to be taken to M or S completes with xstatus.XPP the
\* privilege it was taken from, XPIE the old XIE, XIE clear, every other bit
\* of the status unchanged and the privilege that of the target mode
TrapSavesStatus ==
    \A oc \in BOOLEAN :
       PendingTrap(oc) # "none"
          => TrapSaves(TrapFrom(oc), PendingTrap(oc),
                       handle_exception(TrapFrom(oc), PendingTrap(oc)))

\* C16: when a synchronous exception about to be raised by the instruction at
\* the PC has been handled, xEPC of the mode it was taken to is that PC
EpcIsFaultingPc ==
    \A oc \in BOOLEAN :
       (PendingTrap(oc) \notin {"none", "SuperSoftInt"}
          /\ handle_exception(TrapFrom(oc), PendingTrap(oc)).tag = "Ok")
       => CurrentEpc(handle_exception(TrapFrom(oc), PendingTrap(oc)).e) = pc

\* xCAUSE of the mode the emulator is in, as read_csr returns it
CurrentCause(e) == read_csr(e, IF e.current_priv = PrivS THEN CSR_SCAUSE ELSE CSR_MCAUSE)

\* C17: when a trap about to be taken with the cause c has been handled,
\* xCAUSE of the mode it was taken to reads back c, bit 63 included
CauseReadsBack ==
    \A oc \in BOOLEAN :
       (PendingTrap(oc) # "none"
          /\ handle_exception(TrapFrom(oc), PendingTrap(oc)).tag = "Ok")
       => CurrentCause(handle_exception(TrapFrom(oc), PendingTrap(oc)).e)
             = Ok(handle_exception(TrapFrom(oc), PendingTrap(oc)).e,
                  ExceptionCode(PendingTrap(oc)))

\* the trap ended in r, delivered to S-mode: the privilege is S and the PC is
\* the base of stvec
DeliveredToS(r) ==
    /\ r.tag = "Ok"
    /\ r.e.current_priv = PrivS
    /\ r.e.pc = And(r.e.csr.stvec, Not(Bits(3)))

\* the trap taken from the PC epc ended in r, delivered to M-mode
DeliveredToM(r, epc) ==
    /\ r.e.current_priv = PrivM
    /\ r.e.csr.mepc = And(epc, Not(Bits(3)))

\* the PC a trap x saves: the next instruction for an interrupt
SavedPc(e, x) == IF 63 \in ExceptionCode(x) THEN wrapping_add(e.pc, Bits(4)) ELSE e.pc

\* C18: a trap about to be taken is delivered to S-mode exactly when the
\* privilege is not M and the bit of its cause is set in medeleg (mideleg for
\* an interrupt); any other trap, once handled, has been delivered to M-mode
DelegationRule ==
    \A oc \in BOOLEAN :
       PendingTrap(oc) # "none" =>
          /\ DeliveredToS(handle_exception(TrapFrom(oc), PendingTrap(oc)))
                <=> TargetMode(TrapFrom(oc), PendingTrap(oc)) = PrivS
          /\ (TargetMode(TrapFrom(oc), PendingTrap(oc)) = PrivM
                /\ handle_exception(TrapFrom(oc), PendingTrap(oc)).tag = "Ok")
             => DeliveredToM(handle_exception(TrapFrom(oc), PendingTrap(oc)),
                             SavedPc(TrapFrom(oc), PendingTrap(oc)))

\* C19: an SRET about to execute in M-mode, or in S-mode with mstatus.TSR
\* clear, completes; afterwards SIE is the previous SPIE, SPIE is 1, SPP is 0,
\* the privilege is the previous SPP, the PC is sepc (the run loop does not
\* advance it) and no bit of mstatus outside SIE, SPIE and SPP has changed
SretReturns ==
    \A oc \in BOOLEAN :
       (at = "loop" /\ ~panicked /\ ~riscv_tests_finished
          /\ fetch(Emu(oc)).tag = "Ok" /\ fetch(Emu(oc)).e.instruction = SRET
          /\ \/ current_priv = PrivM
             \/ current_priv = PrivS /\ And(csr.mstatus, CSR_MSTATUS_TSR_MASK) = Zero)
       => /\ Executed(oc).tag = "Ok"
          /\ (1 \in Executed(oc).e.csr.mstatus <=> 5 \in csr.mstatus)
          /\ 5 \in Executed(oc).e.csr.mstatus
          /\ 8 \notin Executed(oc).e.csr.mstatus
          /\ Executed(oc).e.current_priv = (IF 8 \in csr.mstatus THEN PrivS ELSE PrivU)
          /\ Executed(oc).e.pc = csr.sepc
          /\ OutsideSstatus(Executed(oc).e.csr.mstatus) = OutsideSstatus(csr.mstatus)
          /\ run_iteration(Emu(oc)).tag = "Ok"
          /\ run_iteration(Emu(oc)).e.pc = csr.sepc

\* an interrupt is due in e: mstatus.MIE is set, the privilege is M and an
\* enabled interrupt is pending
InterruptDue(e) ==
    /\ 3 \in e.csr.mstatus
    /\ e.current_priv = PrivM
    /\ And(e.csr.mie, e.csr.mip) # Zero

\* the interrupt check after the instruction executed into e returns an
\* interrupt
InterruptRaised(e) == check_interrupt_active(e) \notin {"Ok", "panic"}

\* C20: after the instruction about to execute has succeeded an interrupt is
\* raised exactly when one is due, and otherwise the PC advances without a
\* trap; after an instruction that trapped only that trap is handled
InterruptRule ==
    \A oc \in BOOLEAN :
       (at = "loop" /\ ~panicked /\ ~riscv_tests_finished /\ fetch(Emu(oc)).tag = "Ok")
       => /\ Executed(oc).tag = "Ok" =>
                /\ InterruptRaised(add_cycle(Executed(oc).e))
                      <=> InterruptDue(add_cycle(Executed(oc).e))
                /\ ~InterruptDue(add_cycle(Executed(oc).e)) =>
                      run_iteration(Emu(oc))
                         = run_progress(add_cycle(Executed(oc).e), Executed(oc).x)
          /\ Executed(oc).tag = "Err" =>
                run_iteration(Emu(oc)) = handle_exception(Executed(oc).e, Executed(oc).x)

\* the instruction about to execute is a jump, or a branch that is taken
JumpTaken(e) ==
    IF Field(e.instruction, 0, 2) = 3
    THEN \/ Field(e.instruction, 0, 7) \in {103, 111}
         \/ TakenBranch(e)
         \/ e.instruction \in {MRET, SRET}
    ELSE \/ Field(e.instruction, 0, 2) = 1 /\ Field(e.instruction, 13, 3) = 5
         \/ /\ Field(e.instruction, 0, 2) = 1
            /\ Field(e.instruction, 13, 3) \in {6, 7}
            /\ (Field(e.instruction, 13, 3) = 6)
                  = (read_reg(e, 8 + Field(e.instruction, 7, 3)) = Zero)
         \/ /\ Field(e.instruction, 0, 2) = 2
            /\ Field(e.instruction, 13, 3) = 4
            /\ Field(e.instruction, 2, 5) = 0

\* the PC after the instruction fetched in e (executed into r) when nothing
\* traps: where the jump went, or past the instruction
NextPc(e, r) ==
    IF JumpTaken(e) THEN r.pc
    ELSE wrapping_add(e.pc, Bits(IF Field(e.instruction, 0, 2) = 3 THEN 4 ELSE 2))

\* the claim for the instruction fetched in f.e, executed with the result x,
\* when the iteration of run ends as r
CycleAndPcOf(f, x, r) ==
    /\ (x.tag = "Ok" /\ check_interrupt_active(add_cycle(x.e)) = "Ok") =>
          /\ r.tag = "Ok"
          /\ r.e.csr.mcycle = wrapping_add(f.e.csr.mcycle, Bits(1))
          /\ r.e.pc = NextPc(f.e, x.e)
    /\ x.tag = "Err" => r.e.csr.mcycle = f.e.csr.mcycle

CycleAndPcAfter(f, x) == CycleAndPcOf(f, x, run_match(x))

CycleAndPcFrom(f) == f.tag = "Ok" => CycleAndPcAfter(f, exec(f.e))

\* C21: an instruction that completes without a trap and without an interrupt
\* adds 1 to the cycle counter and leaves the PC at the jump target, or 2 or 4
\* past the instruction; an instruction that traps leaves the cycle counter
\* as it was
CycleAndPc ==
    \A oc \in BOOLEAN :
       (at = "loop" /\ ~panicked /\ ~riscv_tests_finished) => CycleAndPcFrom(fetch(Emu(oc)))

\* a taken compressed branch has completed: the PC is at its target and one
\* cycle is counted
CompressedBranchTaken ==
    /\ at = "loop" /\ ~panicked
    /\ c_instruction = C_BEQZ(8, 4)
    /\ pc = Bits(6)
    /\ csr.mcycle = Bits(2)

\* the operand of the CSR instruction i in e: rs1, or the 5-bit immediate
CsrSource(e, i) ==
    IF Field(i, 12, 3) \in {2, 3} THEN read_reg(e, Field(i, 15, 5)) ELSE Bits(Field(i, 15, 5))

\* what the CSR instruction i is to leave in a register that held old
CsrSetOrClear(e, i, old) ==
    IF Field(i, 12, 3) \in {2, 6} THEN Or(old, CsrSource(e, i))
    ELSE And(old, Not(CsrSource(e, i)))

\* C22: a CSRRS, CSRRSI, CSRRC or CSRRCI of mscratch (a register whose 64
\* bits are all writable) about to execute in M-mode leaves old OR source, or
\* old AND NOT source, in mscratch and the old value in rd
CsrSetClear ==
    \A oc \in BOOLEAN :
       (at = "loop" /\ ~panicked /\ ~riscv_tests_finished
          /\ fetch(Emu(oc)).tag = "Ok"
          /\ Field(fetch(Emu(oc)).e.instruction, 0, 7) = 115
          /\ Field(fetch(Emu(oc)).e.instruction, 12, 3) \in {2, 3, 6, 7}
          /\ Field(fetch(Emu(oc)).e.instruction, 20, 12) = CSR_MSCRATCH
          /\ Field(fetch(Emu(oc)).e.instruction, 7, 5) # 0
          /\ current_priv = PrivM)
       => /\ Executed(oc).tag = "Ok"
          /\ Executed(oc).e.csr.mscratch
                = CsrSetOrClear(Emu(oc), fetch(Emu(oc)).e.instruction, csr.mscratch)
          /\ read_reg(Executed(oc).e, Field(fetch(Emu(oc)).e.instruction, 7, 5))
                = csr.mscratch

\* the low 32 bits of v, sign-extended from bit 31
Sext32(v) == (v \cap 0..31) \cup (IF 31 \in v THEN 32..63 ELSE {})

\* the 32-bit result of the W-suffixed operation (funct3, funct7) on the low
\* 32 bits a and b of its operands
WordResult(k, a, b) ==
    LET sh == Val(b \cap 0..4) IN
    CASE k = <<0, 0>>  -> wrapping_add(a, b)
      [] k = <<0, 1>>  -> wrapping_mul(a, b)
      [] k = <<0, 32>> -> wrapping_sub(a, b)
      [] k = <<1, 0>>  -> Shl(a, sh)
      [] k = <<5, 0>>  -> Shr(a, sh)
      [] k = <<5, 32>> -> Shr(Sext32(a), sh)
      [] k = <<4, 1>>  ->
            IF b = Zero THEN AllOnes
            ELSE IF a = Bit(31) /\ b = LowMask(32) THEN a
            ELSE sdiv(Sext32(a), Sext32(b))
      [] k = <<5, 1>>  -> IF b = Zero THEN AllOnes ELSE udiv(a, b)
      [] k = <<6, 1>>  ->
            IF b = Zero THEN a
            ELSE IF a = Bit(31) /\ b = LowMask(32) THEN Zero
            ELSE srem(Sext32(a), Sext32(b))
      [] k = <<7, 1>>  -> IF b = Zero THEN a ELSE urem(a, b)

\* the instruction i is a W-suffixed one
IsWordOp(i) ==
    \/ Field(i, 0, 7) = 59 /\ <<Field(i, 12, 3), Field(i, 25, 7)>> \in WordOps
    \/ Field(i, 0, 7) = 27 /\ Field(i, 12, 3) = 0
    \/ Field(i, 0, 7) = 27 /\ <<Field(i, 12, 3), Field(i, 25, 7)>> \in WordImmOps

\* what the W-suffixed instruction i is to write to rd in e
WordExpected(e, i) ==
    IF Field(i, 0, 7) = 59
    THEN Sext32(WordResult(<<Field(i, 12, 3), Field(i, 25, 7)>>,
                           read_reg(e, Field(i, 15, 5)) \cap 0..31,
                           read_reg(e, Field(i, 20, 5)) \cap 0..31))
    ELSE IF Field(i, 12, 3) = 0
    THEN Sext32(wrapping_add(read_reg(e, Field(i, 15, 5)) \cap 0..31,
                             sign_extend(11, Bits(Field(i, 20, 12)))))
    ELSE Sext32(WordResult(<<Field(i, 12, 3), Field(i, 25, 7)>>,
                           read_reg(e, Field(i, 15, 5)) \cap 0..31,
                           Bits(Field(i, 20, 5))))

\* C23: a W-suffixed instruction about to execute writes to rd the 32-bit
\* result computed from the low 32 bits of its operands, sign-extended from
\* bit 31; the division by zero is that of the low 32 bits of rs2
WordOpsUseLowHalf ==
    \A oc \in BOOLEAN :
       (at = "loop" /\ ~panicked /\ ~riscv_tests_finished
          /\ fetch(Emu(oc)).tag = "Ok"
          /\ IsWordOp(fetch(Emu(oc)).e.instruction)
          /\ Field(fetch(Emu(oc)).e.instruction, 7, 5) # 0)
       => /\ Executed(oc).tag = "Ok"
          /\ read_reg(Executed(oc).e, Field(fetch(Emu(oc)).e.instruction, 7, 5))
                = WordExpected(Emu(oc), fetch(Emu(oc)).e.instruction)

\* i is JAL, JALR or C.JALR
IsLinkingJump(i) ==
    \/ Field(i, 0, 7) = 111
    \/ Field(i, 0, 7) = 103 /\ Field(i, 12, 3) = 0
    \/ Field(i, 0, 2) = 2 /\ Field(i, 12, 4) = 9 /\ Field(i, 2, 5) = 0 /\ Field(i, 7, 5) # 0

\* the link register of the linking jump i: rd, or x1 for C.JALR
LinkRegister(i) == IF Field(i, 0, 2) = 3 THEN Field(i, 7, 5) ELSE 1

\* the target of the linking jump i, from the registers of e
JumpTarget(e, i) ==
    IF Field(i, 0, 7) = 111 THEN wrapping_add(e.pc, sign_extend(20, extract_j_type(i).imm))
    ELSE IF Field(i, 0, 7) = 103
    THEN wrapping_add(read_reg(e, Field(i, 15, 5)), sign_extend(11, Bits(Field(i, 20, 12))))
            \ {0}
    ELSE read_reg(e, Field(i, 7, 5)) \ {0}

\* the claim for the linking jump fetched in f.e and executed into x
LinkAndTargetOf(f, x) ==
    (IsLinkingJump(f.e.instruction) /\ x.tag = "Ok")
    => /\ x.e.pc = JumpTarget(f.e, f.e.instruction)
       /\ LinkRegister(f.e.instruction) # 0 =>
             read_reg(x.e, LinkRegister(f.e.instruction))
                = wrapping_add(f.e.pc,
                               Bits(IF Field(f.e.instruction, 0, 2) = 3 THEN 4 ELSE 2))

LinkAndTargetFrom(f) == f.tag = "Ok" => LinkAndTargetOf(f, exec(f.e))

\* C24: a JAL, JALR or C.JALR about to execute leaves pc + 4 (pc + 2 for
\* C.JALR) in the link register and the PC at the target computed from the
\* registers as they are before it, with bit 0 cleared for JALR and C.JALR
LinkAndTarget ==
    \A oc \in BOOLEAN :
       (at = "loop" /\ ~panicked /\ ~riscv_tests_finished)
       => LinkAndTargetFrom(fetch(Emu(oc)))

\* a reservation of e covers the 4 bytes at address a
Reserved(e, a) ==
    \E k \in 1..Len(e.reserved_memory_ranges) :
       /\ ~Less(a, e.reserved_memory_ranges[k][1])
       /\ ~Less(e.reserved_memory_ranges[k][2], wrapping_add(a, Bits(4)))

\* the claim for the SC.W fetched in f.e (rd not x0) and executed into x
ScRuleOf(f, x, rd, a, v) ==
    /\ x.tag = "Ok"
    /\ IF Reserved(f.e, a)
       THEN /\ read_reg(x.e, rd) = Zero
            /\ x.e.memory = Overwrite(f.e.memory, Val(a), to_le_bytes(v, 4))
       ELSE /\ read_reg(x.e, rd) = Bits(1)
            /\ x.e.memory = f.e.memory

ScRuleFrom(f) ==
    (/\ f.tag = "Ok"
     /\ Field(f.e.instruction, 0, 7) = 47
     /\ Field(f.e.instruction, 12, 3) = 2
     /\ Field(f.e.instruction, 27, 5) = 3
     /\ Field(f.e.instruction, 7, 5) # 0
     /\ read_reg(f.e, Field(f.e.instruction, 15, 5)) = Bits(LastWord))
    => ScRuleOf(f, exec(f.e), Field(f.e.instruction, 7, 5),
                read_reg(f.e, Field(f.e.instruction, 15, 5)),
                read_reg(f.e, Field(f.e.instruction, 20, 5)))

\* C25: an SC.W about to execute to the last word of memory (the word a
\* 4-byte Memory::write reaches) writes 0 to rd and stores rs2 if one of the
\* reservations covers the word, whichever LR made it, and otherwise writes 1
\* to rd and leaves memory as it is
ScRule ==
    \A oc \in BOOLEAN :
       (at = "loop" /\ ~panicked /\ ~riscv_tests_finished) => ScRuleFrom(fetch(Emu(oc)))

\* the instruction i is an AMO (.W or .D)
IsAmo(i) ==
    /\ Field(i, 0, 7) = 47
    /\ Field(i, 12, 3) \in {2, 3}
    /\ Field(i, 27, 5) \in {0, 1, 4, 8, 12, 16, 20, 24, 28}

\* the claim for the AMO fetched in f.e and executed into x
AmoFrameOf(f, x, rd, a, n) ==
    x.tag = "Ok" =>
       /\ \A r \in 1..31 : r # rd => read_reg(x.e, r) = read_reg(f.e, r)
       /\ \A b \in 0..(MAX - 1) :
             (b < Val(a) \/ b >= Val(a) + n) => x.e.memory[b] = f.e.memory[b]

AmoFrameFrom(f) ==
    (f.tag = "Ok" /\ IsAmo(f.e.instruction))
    => AmoFrameOf(f, exec(f.e), Field(f.e.instruction, 7, 5),
                  read_reg(f.e, Field(f.e.instruction, 15, 5)),
                  IF Field(f.e.instruction, 12, 3) = 2 THEN 4 ELSE 8)

\* C29: an AMO about to execute changes no general register but rd (rs2
\* keeps its value when it is not rd) and no byte of memory outside the
\* addressed word
AmoFrame ==
    \A oc \in BOOLEAN :
       (at = "loop" /\ ~panicked /\ ~riscv_tests_finished) => AmoFrameFrom(fetch(Emu(oc)))

\* C26: mstatus.MPP is always the encoding of a privilege (0, 1 or 3), and an
\* MRET about to execute in M-mode does not abort the emulator
MppValid ==
    /\ PrivValid(Field(csr.mstatus, 11, 2))
    /\ \A oc \in BOOLEAN :
          (at = "loop" /\ ~panicked /\ ~riscv_tests_finished /\ current_priv = PrivM
             /\ fetch(Emu(oc)).tag = "Ok" /\ fetch(Emu(oc)).e.instruction = MRET)
          => Executed(oc).tag # "Panic"

\* C27: whenever an instruction is about to be fetched with the C extension
\* disabled, the PC is a multiple of 4
AlignedWithoutC ==
    \A oc \in BOOLEAN :
       (at = "loop" /\ ~panicked /\ ~riscv_tests_finished /\ ~is_c_extension_enabled(Emu(oc)))
       => WMod(pc, 4) = 0

\* the claim for the instruction executed into x and the iteration ending as r
TrapKeepsStateOf(x, r) ==
    x.tag = "Err" =>
       /\ x.e.regs = regs
       /\ x.e.memory = memory
       /\ r.tag = "Ok" => (r.e.regs = regs /\ r.e.memory = memory)

TrapKeepsStateAfter(x) == TrapKeepsStateOf(x, run_match(x))

TrapKeepsStateFrom(f) == f.tag = "Ok" => TrapKeepsStateAfter(exec(f.e))

\* C28: an instruction about to execute that raises a trap leaves the general
\* registers and memory as they are, through the handling of the trap too
TrapKeepsState ==
    \A oc \in BOOLEAN :
       (at = "loop" /\ ~panicked /\ ~riscv_tests_finished)
       => TrapKeepsStateFrom(fetch(Emu(oc)))

\* the claim for the instruction fetched in f.e and executed into x, when the
\* iteration of run ends as r
InterruptEpcOf(f, x, r) ==
    (x.tag = "Ok" /\ InterruptRaised(add_cycle(x.e)) /\ r.tag = "Ok")
    => r.e.csr.mepc = NextPc(f.e, x.e)

InterruptEpcAfter(f, x) == InterruptEpcOf(f, x, run_match(x))

InterruptEpcFrom(f) == f.tag = "Ok" => InterruptEpcAfter(f, exec(f.e))

\* C30: when an interrupt is taken after the instruction about to execute,
\* mepc is the address where execution would have gone on: past the
\* instruction, or the target of the jump or of the MRET
InterruptEpc ==
    \A oc \in BOOLEAN :
       (at = "loop" /\ ~panicked /\ ~riscv_tests_finished)
       => InterruptEpcFrom(fetch(Emu(oc)))

====
